---- MODULE Spec2Model ----
(***************************************************************************)
(* Repository scanning and summarisation pipeline of autofix-my-code:      *)
(* the local scanner (scanFiles) and the remote scanner (fetchGitHubRepo / *)
(* processGitHubTree) of src/utils/fileScanner.ts, with their detectors.   *)
(* One scan invocation is one behaviour; every await of the source is a    *)
(* step boundary.  The useAnalysis hook (runFullAnalysis and the three     *)
(* calls it makes) and the analyze-code function are modelled beside the   *)
(* scanners, each with a specification of its own: SpecPipeline, SpecEdge. *)
(* SpecReset is SpecPipeline with the Start Over button; SpecSide runs two *)
(* scan invocations side by side.                                          *)
(***************************************************************************)
EXTENDS Integers, Sequences, FiniteSets, TLC

(***************************************************************************)
(* State of one scan invocation.                                           *)
(***************************************************************************)
VARIABLES
  mode,            \* "local": scanFiles(files); "remote": fetchGitHubRepo(url)
  files,           \* the argument of scanFiles
  url,             \* the argument of fetchGitHubRepo
  world,           \* what the GitHub hosts answer: listing statuses and the tree
  pc,              \* where the invocation stands
  owner, repoName, \* fetchGitHubRepo: the parsed coordinates
  status,          \* fetchGitHubRepo: response.status of the first listing
  requests,        \* the URLs passed to fetch(), in order
  error,           \* the message of the Error the invocation rejected with
  sortedFiles,     \* scanFiles: sortedFiles; processGitHubTree: files
  cursor,          \* position of the loop's current element in sortedFiles
  languages, frameworks, structure, processedFiles, errors, warnings,
  totalSize, processedCount,
  \* useAnalysis (src/types/analysis.ts)
  hook,            \* the useState values: status, progress, logs, the results
  task,            \* runFullAnalysis: the source, and what the scan and the calls answer
  step,            \* where runFullAnalysis stands
  invoked,         \* the actions passed to supabase.functions.invoke, in order
  showAnalysis,    \* Index: the analysis view, with its Start Over button, is shown
  \* analyze-code (supabase/functions/analyze-code/index.ts)
  call,            \* the request, the environment and what the LLM endpoint answers
  reply,           \* the Response the handler returned
  llmCalls,        \* the number of requests sent to the LLM endpoint
  edgePc,          \* where the handler stands
  \* scans that run at the same time
  invocations      \* the frame of each invocation: its input, position and accumulators

(***************************************************************************)
(* Strings.  A JavaScript string is a TLA+ string; the String.prototype    *)
(* methods the scanner uses are defined on its characters.                 *)
(***************************************************************************)
CharAt(s, i) == SubSeq(s, i, i)

\* String.prototype.startsWith
StartsWith(s, t) == Len(t) <= Len(s) /\ SubSeq(s, 1, Len(t)) = t

\* String.prototype.endsWith
EndsWith(s, t) == Len(t) <= Len(s) /\ SubSeq(s, Len(s) - Len(t) + 1, Len(s)) = t

\* String.prototype.includes
Includes(s, t) == \E i \in 1..(Len(s) - Len(t) + 1) : SubSeq(s, i, i + Len(t) - 1) = t

\* The characters the modelled paths, URLs and names are written in.
LowerLetters == "abcdefghijklmnopqrstuvwxyz"
UpperLetters == "ABCDEFGHIJKLMNOPQRSTUVWXYZ"
Digits == "0123456789"
Punctuation == "_-:.@/^{}\" "

CharsOf(s) == {CharAt(s, i) : i \in 1..Len(s)}
IndexIn(s, c) == CHOOSE i \in 1..Len(s) : CharAt(s, i) = c
Alphabet == LowerLetters \o UpperLetters \o Digits \o Punctuation

\* f as an explicit table (the value of @@ is one), so that applying it
\* does not evaluate the defining expression again.
Tabulated(f) == f @@ [k \in {} |-> k]

\* String.prototype.toLowerCase, per character
LowerChar(c) ==
  IF c \in CharsOf(UpperLetters) THEN CharAt(LowerLetters, IndexIn(UpperLetters, c)) ELSE c
LowerOf == Tabulated([c \in CharsOf(Alphabet) |-> LowerChar(c)])

RECURSIVE LowerFrom(_, _)
LowerFrom(s, i) == IF i > Len(s) THEN "" ELSE LowerOf[CharAt(s, i)] \o LowerFrom(s, i + 1)
ToLowerCase(s) == LowerFrom(s, 1)

\* Positions of the character c in s.
Positions(s, c) == {i \in 1..Len(s) : CharAt(s, i) = c}
Max(S) == CHOOSE x \in S : \A y \in S : y <= x
Min(S) == CHOOSE x \in S : \A y \in S : x <= y

\* path.split('.').pop(): the text after the last '.', the whole string when
\* it holds no '.'.
SplitDotPop(s) == IF Positions(s, ".") = {} THEN s
                  ELSE SubSeq(s, Max(Positions(s, ".")) + 1, Len(s))

\* const ext = '.' + path.split('.').pop()?.toLowerCase();
ExtOf(path) == "." \o ToLowerCase(SplitDotPop(path))

(***************************************************************************)
(* Classification tables.                                                  *)
(***************************************************************************)
LANGUAGE_EXTENSIONS ==
  [e \in {".ts", ".tsx", ".js", ".jsx", ".py", ".java", ".go", ".rs", ".rb", ".php",
          ".cs", ".cpp", ".c", ".swift", ".kt", ".vue", ".svelte", ".html", ".css",
          ".scss", ".json", ".yaml", ".yml", ".md", ".sql"} |->
     CASE e = ".ts" -> "TypeScript"
       [] e = ".tsx" -> "TypeScript/React"
       [] e = ".js" -> "JavaScript"
       [] e = ".jsx" -> "JavaScript/React"
       [] e = ".py" -> "Python"
       [] e = ".java" -> "Java"
       [] e = ".go" -> "Go"
       [] e = ".rs" -> "Rust"
       [] e = ".rb" -> "Ruby"
       [] e = ".php" -> "PHP"
       [] e = ".cs" -> "C#"
       [] e = ".cpp" -> "C++"
       [] e = ".c" -> "C"
       [] e = ".swift" -> "Swift"
       [] e = ".kt" -> "Kotlin"
       [] e = ".vue" -> "Vue"
       [] e = ".svelte" -> "Svelte"
       [] e = ".html" -> "HTML"
       [] e = ".css" -> "CSS"
       [] e = ".scss" -> "SCSS"
       [] e = ".json" -> "JSON"
       [] e = ".yaml" -> "YAML"
       [] e = ".yml" -> "YAML"
       [] e = ".md" -> "Markdown"
       [] e = ".sql" -> "SQL"]

FRAMEWORK_INDICATORS ==
  [f \in {"React", "Vue", "Angular", "Svelte", "Express", "FastAPI", "Django", "Flask",
          "Spring", "Rails", "Laravel", "NestJS", "Tailwind", "Bootstrap"} |->
     CASE f = "React" -> {"react", "react-dom", "next", "gatsby"}
       [] f = "Vue" -> {"vue", "nuxt", "vuex"}
       [] f = "Angular" -> {"@angular/core"}
       [] f = "Svelte" -> {"svelte"}
       [] f = "Express" -> {"express"}
       [] f = "FastAPI" -> {"fastapi"}
       [] f = "Django" -> {"django"}
       [] f = "Flask" -> {"flask"}
       [] f = "Spring" -> {"spring-boot", "org.springframework"}
       [] f = "Rails" -> {"rails"}
       [] f = "Laravel" -> {"laravel"}
       [] f = "NestJS" -> {"@nestjs/core"}
       [] f = "Tailwind" -> {"tailwindcss"}
       [] f = "Bootstrap" -> {"bootstrap"}]

IGNORED_DIRS == {"node_modules", ".git", "dist", "build", ".next", "__pycache__",
                 "venv", ".venv", "target", "vendor", ".idea", ".vscode"}

IGNORED_FILES == {".DS_Store", "package-lock.json", "yarn.lock", "pnpm-lock.yaml",
                  ".env", ".env.local"}

MAX_FILE_SIZE == 100 * 1024
MAX_FILES == 100
\* The literal 50 of `processedCount < 50` in processGitHubTree.
CONTENT_FETCH_CAP == 50

(***************************************************************************)
(* File contents.  A content is its text; what the regular expressions of  *)
(* detectErrors and JSON.parse of detectFrameworks find in a text is       *)
(* tabulated for the texts the modelled inputs carry.                      *)
(***************************************************************************)
TextPlain == "export const x = 1;"
TextAny == "let x: any = 5;"
TextVarEq == "var a = b == c; // TODO: x FIXME: y"
TextPy == "from os import * except:"
TextNoisy == "console.error(e); console.error (f); throw new Error(process.env.API_KEY); debugger;"
TextPkgReact == "{\"dependencies\": {\"react\": \"^18.0.0\"}}"
TextPkgDev == "{\"dependencies\": {\"vue\": \"\"}, \"devDependencies\": {\"tailwindcss\": \"^3.4.0\", \"next\": \"14\"}}"
TextPkgBad == "{\"dependencies\": {\"react\": TODO: pin"
TextPkgNull == "null"

Texts == {TextPlain, TextAny, TextVarEq, TextPy, TextNoisy,
          TextPkgReact, TextPkgDev, TextPkgBad, TextPkgNull}

NoMatches == [anyType |-> 0, varUse |-> 0, looseEq |-> 0, bareExcept |-> 0, wildcard |-> 0,
              consoleError |-> 0, throwNew |-> 0, todo |-> 0, debugger |-> 0, env |-> 0]

\* content.match(<pattern>): the number of matches of each pattern of
\* detectErrors in a text (0: match() returned null).
RegexMatches ==
  [t \in Texts |->
     CASE t = TextAny -> [NoMatches EXCEPT !.anyType = 1]
       [] t = TextVarEq -> [NoMatches EXCEPT !.varUse = 1, !.looseEq = 1, !.todo = 2]
       [] t = TextPy -> [NoMatches EXCEPT !.bareExcept = 1, !.wildcard = 1]
       [] t = TextNoisy -> [NoMatches EXCEPT !.consoleError = 2, !.throwNew = 1,
                                             !.debugger = 1, !.env = 1]
       [] t = TextPkgBad -> [NoMatches EXCEPT !.todo = 1]
       [] OTHER -> NoMatches]

\* JSON.parse(text): threw, or the value; of an object value only the two
\* members detectFrameworks reads are kept, each a mapping from dependency
\* name to version string, empty when the member is absent.
NoDeps == [n \in {} |-> ""]
JsonParse ==
  [t \in Texts |->
     CASE t = TextPkgReact -> [threw |-> FALSE, kind |-> "object",
                               dependencies |-> [n \in {"react"} |-> "^18.0.0"],
                               devDependencies |-> NoDeps]
       [] t = TextPkgDev -> [threw |-> FALSE, kind |-> "object",
                             dependencies |-> [n \in {"vue"} |-> ""],
                             devDependencies |-> [n \in {"tailwindcss", "next"} |->
                                                    IF n = "next" THEN "14" ELSE "^3.4.0"]]
       [] t = TextPkgNull -> [threw |-> FALSE, kind |-> "null",
                              dependencies |-> NoDeps, devDependencies |-> NoDeps]
       [] OTHER -> [threw |-> TRUE, kind |-> "none",
                    dependencies |-> NoDeps, devDependencies |-> NoDeps]]

\* { ...pkg.dependencies, ...pkg.devDependencies }: later members win.
SpreadDeps(pkg) ==
  [n \in DOMAIN pkg.dependencies \cup DOMAIN pkg.devDependencies |->
     IF n \in DOMAIN pkg.devDependencies THEN pkg.devDependencies[n]
     ELSE pkg.dependencies[n]]

\* allDeps[ind] in a condition: a present key whose value is truthy.
Truthy(v) == v # ""

\* detectFrameworks(packageJsonContent, frameworks): the set after the call.
\* Reading a member of null throws inside the try, like a failed parse.
detectFrameworks(packageJsonContent, target) ==
  LET pkg == JsonParse[packageJsonContent] IN
  IF pkg.threw \/ pkg.kind = "null" THEN target
  ELSE LET allDeps == SpreadDeps(pkg) IN
       target \cup
         {framework \in DOMAIN FRAMEWORK_INDICATORS :
            \E ind \in FRAMEWORK_INDICATORS[framework] :
              ind \in DOMAIN allDeps /\ Truthy(allDeps[ind])}

\* path.match(/\.(ts|tsx|js|jsx)$/)
IsTsJsPath(path) == \E e \in {".ts", ".tsx", ".js", ".jsx"} : EndsWith(path, e)

Occurrences(n) == " (" \o ToString(n) \o " occurrence" \o (IF n > 1 THEN "s" ELSE "") \o ")"

\* One generic pattern of errorPatterns: at most one message.
PatternMessage(path, n, message) ==
  IF n > 0 THEN <<path \o ": " \o message \o Occurrences(n)>> ELSE <<>>

\* One language-specific check: at most one message, whatever the count.
CheckMessage(path, n, message) == IF n > 0 THEN <<path \o ": " \o message>> ELSE <<>>

\* detectErrors(path, content): the messages, language-specific ones first.
detectErrors(path, content) ==
  LET m == RegexMatches[content] IN
  (IF IsTsJsPath(path)
     THEN CheckMessage(path, m.anyType, "'any' type usage detected")
          \o CheckMessage(path, m.varUse, "'var' usage (consider let/const)")
          \o CheckMessage(path, m.looseEq, "Loose equality (==) used instead of strict (===)")
     ELSE <<>>)
  \o (IF EndsWith(path, ".py")
       THEN CheckMessage(path, m.bareExcept, "Bare except clause (catches all exceptions)")
            \o CheckMessage(path, m.wildcard, "Wildcard import detected")
       ELSE <<>>)
  \o PatternMessage(path, m.consoleError, "Console error found")
  \o PatternMessage(path, m.throwNew, "Uncaught throw statement")
  \o PatternMessage(path, m.todo, "TODO/FIXME comment found")
  \o PatternMessage(path, m.debugger, "Debugger statement found")
  \o PatternMessage(path, m.env, "Unguarded env variable access")

(***************************************************************************)
(* String.prototype.localeCompare under the root collation: the strings    *)
(* are compared by the primary weights of their characters (punctuation,   *)
(* then digits, then letters without regard to case) and, when those are   *)
(* equal, by case, a lower-case letter before its upper-case form.         *)
(***************************************************************************)
CollationOrder == " _-:.\"{}@/^" \o Digits \o LowerLetters

PrimaryOf(c) == IndexIn(CollationOrder, LowerChar(c))
TertiaryOf(c) == IF c \in CharsOf(UpperLetters) THEN 1 ELSE 0
PrimaryWeight == Tabulated([c \in CharsOf(Alphabet) |-> PrimaryOf(c)])
TertiaryWeight == Tabulated([c \in CharsOf(Alphabet) |-> TertiaryOf(c)])

RECURSIVE CompareWeights(_, _, _, _)
CompareWeights(a, b, i, weight) ==
  IF i > Len(a) /\ i > Len(b) THEN 0
  ELSE IF i > Len(a) THEN -1
  ELSE IF i > Len(b) THEN 1
  ELSE LET x == weight[CharAt(a, i)]
           y == weight[CharAt(b, i)]
       IN IF x < y THEN -1 ELSE IF x > y THEN 1 ELSE CompareWeights(a, b, i + 1, weight)

localeCompare(a, b) ==
  LET p == CompareWeights(a, b, 1, PrimaryWeight)
  IN IF p # 0 THEN p ELSE CompareWeights(a, b, 1, TertiaryWeight)

\* file.webkitRelativePath || file.name
PathOf(file) == IF file.webkitRelativePath # "" THEN file.webkitRelativePath ELSE file.name

\* Array.prototype.sort with the comparator of scanFiles.  The sort is
\* stable: an element goes behind the elements that compare lower and the
\* earlier elements that compare equal.
SortByPath(fs) ==
  LET n == Len(fs)
      key == Tabulated([k \in 1..n |-> PathOf(fs[k])])
      Before(m, k) == LET c == localeCompare(key[m], key[k])
                      IN c < 0 \/ (c = 0 /\ m < k)
      rank == Tabulated([k \in 1..n |-> 1 + Cardinality({m \in 1..n : Before(m, k)})])
  IN [p \in 1..n |-> fs[CHOOSE k \in 1..n : rank[k] = p]]

(***************************************************************************)
(* The ignore rules.                                                       *)
(***************************************************************************)
\* The directory rule without its includes() half.
LocalIgnoredDirTopOnly(path) == \E dir \in IGNORED_DIRS : StartsWith(path, dir \o "/")

\* scanFiles: IGNORED_DIRS.some(dir => path.includes(`/${dir}/`) || path.startsWith(`${dir}/`))
LocalIgnoredDir(path) ==
  \E dir \in IGNORED_DIRS : Includes(path, "/" \o dir \o "/") \/ StartsWith(path, dir \o "/")

\* processGitHubTree: IGNORED_DIRS.some(dir => item.path.includes(`${dir}/`))
RemoteIgnoredDir(path) == \E dir \in IGNORED_DIRS : Includes(path, dir \o "/")

\* IGNORED_FILES.some(f => path.endsWith(f)), in both scanners
IgnoredFile(path) == \E f \in IGNORED_FILES : EndsWith(path, f)

(***************************************************************************)
(* Inputs of a local scan: File objects.  readError is the message of      *)
(* reader.error when FileReader fails on the file, "" when it succeeds.    *)
(***************************************************************************)
File(rel, name, size, text, readError) ==
  [webkitRelativePath |-> rel, name |-> name, size |-> size, text |-> text,
   readError |-> readError]

\* Bounds of the modelled inputs.
\* Bounds of the modelled inputs: the number of special entries of an input
\* that holds nothing else, and of one that also holds a bulk folder.
MaxSpecials == 2
MaxWithBulk == 1

\* Sizes of the bulk folder: around the file-count cap.
BulkSizes == (MAX_FILES - 1)..(MAX_FILES + 1)

\* A folder of n small readable source files, listed last to first.
BulkFile(k) == File("lib/f" \o ToString(k) \o ".ts", "f" \o ToString(k) \o ".ts", 10, TextPlain, "")
BulkFiles(n) == [j \in 1..n |-> BulkFile(n + 1 - j)]

LocalPool ==
  << File("zz/last.ts", "last.ts", 20, TextVarEq, ""),
     File("", "package.json", 300, TextPkgReact, ""),
     File("node_modules/x.js", "x.js", 50, TextNoisy, ""),
     File("mybuild/a.ts", "a.ts", 40, TextAny, ""),
     File("", "edge.md", MAX_FILE_SIZE, TextPlain, ""),
     File("", "big.py", MAX_FILE_SIZE + 1, TextPy, ""),
     File("", "bad.ts", 30, TextNoisy, "The file could not be read"),
     File("app/dist/y.ts", "y.ts", 60, TextPlain, ""),
     File("app/build", "build", 70, TextPlain, ""),
     File("app/.env", ".env", 5, TextPlain, ""),
     File("app/package.json", "package.json", 80, TextPkgBad, ""),
     File("", "py", 15, TextPlain, ""),
     File("", "README.md", 90, TextPlain, ""),
     File("", "Legacy.JS", 25, TextVarEq, "") >>

\* The members of seq at the indices in idx, in their order in seq.
RECURSIVE Pick(_, _, _)
Pick(seq, idx, k) ==
  IF k > Len(seq) THEN <<>>
  ELSE (IF k \in idx THEN <<seq[k]>> ELSE <<>>) \o Pick(seq, idx, k + 1)

SubsetsUpTo(n, max) == {idx \in SUBSET (1..n) : Cardinality(idx) <= max}

\* The entries of the pool that go with a bulk folder: a file that sorts
\* behind it, a manifest, an ignored one, a large one, an unreadable one.
LocalCompanions == {idx \in SUBSET {1, 2, 3, 6, 7} : Cardinality(idx) <= MaxWithBulk}

LocalInputs ==
  {Pick(LocalPool, idx, 1) : idx \in SubsetsUpTo(Len(LocalPool), MaxSpecials)}
  \cup {Pick(LocalPool, idx, 1) \o BulkFiles(n) : idx \in LocalCompanions, n \in BulkSizes}

(***************************************************************************)
(* Inputs of a remote scan: the URL, and the answers of api.github.com and *)
(* raw.githubusercontent.com.  A status of 0 stands for a fetch() that     *)
(* rejects (a network error).  An entry of the tree carries, besides the   *)
(* members of the listing (path, type, size when hasSize), what the raw    *)
(* host answers for it.                                                    *)
(***************************************************************************)
Entry(path, type, hasSize, size, rawStatus, text) ==
  [path |-> path, type |-> type, hasSize |-> hasSize, size |-> size,
   rawStatus |-> rawStatus, text |-> text]

BulkEntry(k) == Entry("lib/f" \o ToString(k) \o ".ts", "blob", TRUE, 10, 200, TextPlain)
BulkEntries(n) == [j \in 1..n |-> BulkEntry(j)]

RemotePool ==
  << Entry("lib", "tree", FALSE, 0, 404, TextPlain),
     Entry("node_modules/x.js", "blob", TRUE, 50, 200, TextNoisy),
     Entry("mybuild/a.ts", "blob", TRUE, 40, 200, TextAny),
     Entry("app/build", "blob", TRUE, 70, 404, TextPlain),
     Entry("app/.env", "blob", TRUE, 5, 200, TextPlain),
     Entry("big.py", "blob", TRUE, MAX_FILE_SIZE + 1, 200, TextPy),
     Entry("edge.py", "blob", TRUE, MAX_FILE_SIZE, 200, TextPy),
     Entry("package.json", "blob", TRUE, 300, 200, TextPkgDev),
     Entry("gone.ts", "blob", TRUE, 30, 404, TextPlain),
     Entry("net.ts", "blob", TRUE, 35, 0, TextPlain),
     Entry("nosize.ts", "blob", FALSE, 0, 200, TextVarEq),
     Entry("empty.js", "blob", TRUE, 0, 200, TextPlain),
     Entry("README.md", "blob", TRUE, 900, 200, TextPlain) >>

SmallTrees == {Pick(RemotePool, idx, 1) : idx \in SubsetsUpTo(Len(RemotePool), MaxSpecials)}
\* The entries of the pool that go with a bulk folder: a directory, an
\* ignored one, a large one, a manifest, and two whose fetch fails.
RemoteCompanions == {idx \in SUBSET {1, 2, 6, 8, 9, 10} : Cardinality(idx) <= MaxWithBulk}
BigTrees == {Pick(RemotePool, idx, 1) \o BulkEntries(n) : idx \in RemoteCompanions, n \in BulkSizes}

CanonicalUrl == "https://github.com/foo/bar"
Urls == {CanonicalUrl,
         "https://github.com/foo/bar.git",
         "https://github.com/foo/bar/tree/main",
         "github.com/foo/bar",
         "https://gitlab.com/foo/bar",
         "https://github.com/foo",
         "foo/bar"}

\* The statuses of the two listing requests (main, master).
Listings == {<<200, 404>>, <<404, 200>>, <<404, 403>>, <<500, 0>>, <<0, 200>>}

World(listing, tree) == [main |-> listing[1], master |-> listing[2], tree |-> tree]

\* Trees of at most one entry.
TinyTrees == {t \in SmallTrees : Len(t) <= 1}

\* The canonical URL with every listing and every small tree; every URL and
\* every listing with the tiny trees; the trees with a bulk folder under the
\* canonical URL and a listing that succeeds at once.
RemoteInputs ==
  {<<CanonicalUrl, World(l, t)>> : l \in Listings, t \in SmallTrees}
  \cup {<<u, World(l, t)>> : u \in Urls, l \in Listings, t \in TinyTrees}
  \cup {<<CanonicalUrl, World(<<200, 404>>, t)>> : t \in BigTrees}

scanVars == <<languages, frameworks, structure, processedFiles, errors, warnings,
              totalSize, processedCount>>
hookVars == <<hook, task, step, invoked, showAnalysis>>
edgeVars == <<call, reply, llmCalls, edgePc>>
\* What a scan never writes: its inputs, and the state of the hook and of the
\* analyze-code function.
inputVars == <<mode, files, url, world, hookVars, edgeVars, invocations>>
fetchVars == <<owner, repoName, status, requests, error>>
vars == <<inputVars, fetchVars, pc, sortedFiles, cursor, scanVars>>

\* Set.prototype.add on a Set kept in insertion order
SetAdd(set, x) == IF \E k \in 1..Len(set) : set[k] = x THEN set ELSE Append(set, x)

RECURSIVE SetAddAll(_, _, _)
SetAddAll(set, xs, order) ==
  IF order = <<>> THEN set
  ELSE SetAddAll(IF Head(order) \in xs THEN SetAdd(set, Head(order)) ELSE set, xs, Tail(order))

\* The extension itself added when the table has no label for it.
AddLanguageOrExt(langs, ext) ==
  SetAdd(langs, IF ext \in DOMAIN LANGUAGE_EXTENSIONS THEN LANGUAGE_EXTENSIONS[ext] ELSE ext)

\* if (LANGUAGE_EXTENSIONS[ext]) languages.add(LANGUAGE_EXTENSIONS[ext])
AddLanguage(langs, ext) ==
  IF ext \in DOMAIN LANGUAGE_EXTENSIONS THEN SetAdd(langs, LANGUAGE_EXTENSIONS[ext]) ELSE langs

\* Object.entries(FRAMEWORK_INDICATORS): the keys in the order of the table
FrameworkOrder == <<"React", "Vue", "Angular", "Svelte", "Express", "FastAPI", "Django",
                    "Flask", "Spring", "Rails", "Laravel", "NestJS", "Tailwind", "Bootstrap">>

\* if (path.endsWith('package.json')) detectFrameworks(content, frameworks)
AddFrameworks(fws, path, content) ==
  IF EndsWith(path, "package.json")
  THEN SetAddAll(fws, detectFrameworks(content, {}), FrameworkOrder)
  ELSE fws

\* type: ext || 'unknown'
TypeOf(ext) == IF ext # "" THEN ext ELSE "unknown"

FileInfo(path, content, ext, size) ==
  [path |-> path, content |-> content, type |-> TypeOf(ext), size |-> size]

\* (file.size / 1024).toFixed(1): one decimal, halves rounded up
ToFixed1KB(size) ==
  LET tenths == (size * 10 + 512) \div 1024
  IN ToString(tenths \div 10) \o "." \o ToString(tenths % 10)

FileLimitWarning == "Reached file limit (" \o ToString(MAX_FILES) \o "). Some files were skipped."
LargeFileWarning(path, size) == "Skipped large file: " \o path \o " (" \o ToFixed1KB(size) \o "KB)"
ReadFailWarning(path, message) == "Failed to read " \o path \o ": " \o message
FetchFailWarning(path) == "Failed to fetch " \o path

\* The limit test off by one: > for >=.
FileLimitReachedLate(count) == count > MAX_FILES

\* if (processedCount >= MAX_FILES)
FileLimitReached(count) == count >= MAX_FILES

\* The size test off by one: >= for >.
TooLargeInclusive(size) == size >= MAX_FILE_SIZE

\* if (file.size > MAX_FILE_SIZE)
TooLarge(size) == size > MAX_FILE_SIZE

\* The summary object of the return statement.
Summary ==
  [languages |-> languages, frameworks |-> frameworks, files |-> processedFiles,
   errors |-> errors, warnings |-> warnings, structure |-> structure,
   totalSize |-> totalSize, fileCount |-> processedCount]

\* useState initial values (lines 97-103); no run of runFullAnalysis.
Null == [isNull |-> TRUE]
HookInitial ==
  [status |-> "idle", progress |-> 0, logs |-> <<>>, repoSummary |-> Null,
   analysisResult |-> Null, patchResult |-> Null, docsResult |-> Null]
NoTask == [source |-> "none"]
HookIdle ==
  /\ hook = HookInitial
  /\ task = NoTask
  /\ step = "idle"
  /\ invoked = <<>>
  /\ showAnalysis = FALSE

\* No request to analyze-code.
NoCall == [method |-> "none"]
NoReply == [status |-> 0]
EdgeIdle ==
  /\ call = NoCall
  /\ reply = NoReply
  /\ llmCalls = 0
  /\ edgePc = "idle"

\* No scans side by side.
Alone == invocations = <<>>

Fresh ==
  /\ owner = ""
  /\ repoName = ""
  /\ status = 0
  /\ requests = <<>>
  /\ error = ""
  /\ sortedFiles = <<>>
  /\ cursor = 1
  /\ languages = <<>>
  /\ frameworks = <<>>
  /\ structure = <<>>
  /\ processedFiles = <<>>
  /\ errors = <<>>
  /\ warnings = <<>>
  /\ totalSize = 0
  /\ processedCount = 0

InitLocal ==
  /\ mode = "local"
  /\ files \in LocalInputs
  /\ url = ""
  /\ world = World(<<0, 0>>, <<>>)
  /\ pc = "scanFiles"
  /\ Fresh
  /\ HookIdle
  /\ EdgeIdle
  /\ Alone

InitRemote ==
  /\ mode = "remote"
  /\ files = <<>>
  /\ \E input \in RemoteInputs : url = input[1] /\ world = input[2]
  /\ pc = "fetchGitHubRepo"
  /\ Fresh
  /\ HookIdle
  /\ EdgeIdle
  /\ Alone

Init == InitLocal \/ InitRemote

(***************************************************************************)
(* scanFiles.                                                              *)
(***************************************************************************)
\* Lines 76-89: the accumulators are fresh, the input is sorted by path.
ScanFilesStart ==
  /\ pc = "scanFiles"
  /\ sortedFiles' = SortByPath(files)
  /\ pc' = "localLoop"
  /\ UNCHANGED <<inputVars, fetchVars, cursor, scanVars>>

LocalCurrent == sortedFiles[cursor]
LocalPath == PathOf(LocalCurrent)
LocalInLoop == pc = "localLoop" /\ cursor <= Len(sortedFiles)
LocalIgnored(path) == LocalIgnoredDir(path) \/ IgnoredFile(path)

\* Lines 94-102: an ignored path is skipped silently.
LocalSkipIgnored ==
  /\ LocalInLoop
  /\ LocalIgnored(LocalPath)
  /\ cursor' = cursor + 1
  /\ UNCHANGED <<inputVars, fetchVars, pc, sortedFiles, scanVars>>

\* Lines 104-108: the limit warning, break, and the return that follows.
LocalFileLimit ==
  /\ LocalInLoop
  /\ ~LocalIgnored(LocalPath)
  /\ FileLimitReached(processedCount)
  /\ warnings' = Append(warnings, FileLimitWarning)
  /\ pc' = "returned"
  /\ UNCHANGED <<inputVars, fetchVars, sortedFiles, cursor, languages, frameworks, structure,
                 processedFiles, errors, totalSize, processedCount>>

\* The size added after the size test instead of before it.
LocalAdmitSizeAfterTest ==
  /\ LocalInLoop
  /\ ~LocalIgnored(LocalPath)
  /\ ~FileLimitReached(processedCount)
  /\ totalSize' = totalSize + (IF TooLarge(LocalCurrent.size) THEN 0 ELSE LocalCurrent.size)
  /\ structure' = Append(structure, LocalPath)
  /\ languages' = AddLanguage(languages, ExtOf(LocalPath))

\* The file admitted without its path in structure.
LocalAdmitUnlisted ==
  /\ LocalInLoop
  /\ ~LocalIgnored(LocalPath)
  /\ ~FileLimitReached(processedCount)
  /\ totalSize' = totalSize + LocalCurrent.size
  /\ structure' = structure
  /\ languages' = AddLanguage(languages, ExtOf(LocalPath))

\* Lines 110-117: the file is admitted.
LocalAdmit ==
  /\ LocalInLoop
  /\ ~LocalIgnored(LocalPath)
  /\ ~FileLimitReached(processedCount)
  /\ totalSize' = totalSize + LocalCurrent.size
  /\ structure' = Append(structure, LocalPath)
  /\ languages' = AddLanguage(languages, ExtOf(LocalPath))

\* Lines 119-123: a large file is noted and not read.
LocalSkipLarge ==
  /\ LocalAdmit
  /\ TooLarge(LocalCurrent.size)
  /\ warnings' = Append(warnings, LargeFileWarning(LocalPath, LocalCurrent.size))
  /\ cursor' = cursor + 1
  /\ UNCHANGED <<inputVars, fetchVars, pc, sortedFiles, frameworks, processedFiles, errors,
                 processedCount>>

\* The read started and not awaited: the loop goes on to the next file.
LocalBeginReadDetached ==
  /\ LocalAdmit
  /\ ~TooLarge(LocalCurrent.size)
  /\ cursor' = cursor + 1
  /\ UNCHANGED <<inputVars, fetchVars, pc, sortedFiles, frameworks, processedFiles, errors,
                 warnings, processedCount>>

\* Line 126: readFileContent(file) is started and awaited.
LocalBeginRead ==
  /\ LocalAdmit
  /\ ~TooLarge(LocalCurrent.size)
  /\ pc' = "reading"
  /\ UNCHANGED <<inputVars, fetchVars, sortedFiles, cursor, frameworks, processedFiles, errors,
                 warnings, processedCount>>

\* detectFrameworks without its own try/catch: a package.json that does not
\* parse throws into the catch of scanFiles.
LocalReadOkParseUncaught ==
  /\ pc = "reading"
  /\ LocalCurrent.readError = ""
  /\ LET content == LocalCurrent.text
         thrown == EndsWith(LocalPath, "package.json") /\ JsonParse[content].threw
     IN /\ frameworks' = IF thrown THEN frameworks ELSE AddFrameworks(frameworks, LocalPath, content)
        /\ errors' = IF thrown THEN errors ELSE errors \o detectErrors(LocalPath, content)
        /\ processedFiles' = IF thrown THEN processedFiles
                             ELSE Append(processedFiles, FileInfo(LocalPath, content,
                                                                  ExtOf(LocalPath), LocalCurrent.size))
        /\ processedCount' = IF thrown THEN processedCount ELSE processedCount + 1
        /\ warnings' = IF thrown
                       THEN Append(warnings, ReadFailWarning(LocalPath, "Unexpected end of JSON input"))
                       ELSE warnings
  /\ cursor' = cursor + 1
  /\ pc' = "localLoop"
  /\ UNCHANGED <<inputVars, fetchVars, sortedFiles, languages, structure, totalSize>>

\* Lines 126-144: reader.onload resolved the read.
LocalReadOk ==
  /\ pc = "reading"
  /\ LocalCurrent.readError = ""
  /\ LET content == LocalCurrent.text IN
       /\ frameworks' = AddFrameworks(frameworks, LocalPath, content)
       /\ errors' = errors \o detectErrors(LocalPath, content)
       /\ processedFiles' = Append(processedFiles,
                                   FileInfo(LocalPath, content, ExtOf(LocalPath), LocalCurrent.size))
  /\ processedCount' = processedCount + 1
  /\ cursor' = cursor + 1
  /\ pc' = "localLoop"
  /\ UNCHANGED <<inputVars, fetchVars, sortedFiles, languages, structure, warnings, totalSize>>

\* The read without its try/catch: the rejection leaves scanFiles.
LocalReadFailUncaught ==
  /\ pc = "reading"
  /\ LocalCurrent.readError # ""
  /\ error' = LocalCurrent.readError
  /\ pc' = "rejected"
  /\ UNCHANGED <<inputVars, owner, repoName, status, requests, sortedFiles, cursor, scanVars>>

\* Lines 145-147: reader.onerror rejected the read; the catch notes it.
LocalReadFail ==
  /\ pc = "reading"
  /\ LocalCurrent.readError # ""
  /\ warnings' = Append(warnings, ReadFailWarning(LocalPath, LocalCurrent.readError))
  /\ cursor' = cursor + 1
  /\ pc' = "localLoop"
  /\ UNCHANGED <<inputVars, fetchVars, sortedFiles, languages, frameworks, structure,
                 processedFiles, errors, totalSize, processedCount>>

\* Lines 150-159: the loop ran out of files.
LocalReturn ==
  /\ pc = "localLoop"
  /\ cursor > Len(sortedFiles)
  /\ pc' = "returned"
  /\ UNCHANGED <<inputVars, fetchVars, sortedFiles, cursor, scanVars>>

(***************************************************************************)
(* fetchGitHubRepo.                                                        *)
(***************************************************************************)
\* The end of the run of characters other than '/' that starts at from
\* (from - 1 when there is none): what a greedy [^\/]+ takes.
RunEnd(s, from) ==
  LET slashes == {k \in Positions(s, "/") : k >= from}
  IN IF slashes = {} THEN Len(s) ELSE Min(slashes) - 1

\* The pattern anchored at both ends: ^https://github.com/<owner>/<repo>$.
MatchAtAnchored(s, k) ==
  LET o1 == k + Len("github.com/")
      o2 == RunEnd(s, o1)
      r1 == o2 + 2
      r2 == RunEnd(s, r1)
  IN [ok |-> /\ o1 - 1 <= Len(s)
             /\ SubSeq(s, 1, o1 - 1) = "https://github.com/"
             /\ o2 >= o1
             /\ o2 < Len(s)
             /\ r2 = Len(s),
      o1 |-> o1, o2 |-> o2, r1 |-> r1, r2 |-> r2]

\* url.match(/github\.com\/([^\/]+)\/([^\/]+)/) tried at position k: the
\* bounds of the two groups.
MatchAt(s, k) ==
  LET o1 == k + Len("github.com/")
      o2 == RunEnd(s, o1)
      r1 == o2 + 2
      r2 == RunEnd(s, r1)
  IN [ok |-> /\ o1 - 1 <= Len(s)
             /\ SubSeq(s, k, o1 - 1) = "github.com/"
             /\ o2 >= o1
             /\ o2 < Len(s)
             /\ r2 >= r1,
      o1 |-> o1, o2 |-> o2, r1 |-> r1, r2 |-> r2]

MatchStarts(s) == {k \in 1..Len(s) : MatchAt(s, k).ok}

\* The match is the leftmost one.
UrlMatch(s) == MatchAt(s, Min(MatchStarts(s)))
UrlOwner(s) == SubSeq(s, UrlMatch(s).o1, UrlMatch(s).o2)
UrlRepo(s) == SubSeq(s, UrlMatch(s).r1, UrlMatch(s).r2)

\* repo.replace(/\.git$/, '')
StripGit(repo) == IF EndsWith(repo, ".git") THEN SubSeq(repo, 1, Len(repo) - Len(".git")) ELSE repo

TreeUrl(o, r, branch) ==
  "https://api.github.com/repos/" \o o \o "/" \o r \o "/git/trees/" \o branch \o "?recursive=1"

\* The branch of the raw URL is the literal main.
RawUrl(o, r, path) == "https://raw.githubusercontent.com/" \o o \o "/" \o r \o "/main/" \o path

\* response.ok
Ok(st) == st \in 200..299

\* Lines 239-242: the URL does not match; no request is made.
FetchInvalidUrl ==
  /\ pc = "fetchGitHubRepo"
  /\ MatchStarts(url) = {}
  /\ error' = "Invalid GitHub URL"
  /\ pc' = "rejected"
  /\ UNCHANGED <<inputVars, owner, repoName, status, requests, sortedFiles, cursor, scanVars>>

\* Lines 244-254: the coordinates are parsed and the listing of main requested.
FetchRequestMain ==
  /\ pc = "fetchGitHubRepo"
  /\ MatchStarts(url) # {}
  /\ owner' = UrlOwner(url)
  /\ repoName' = StripGit(UrlRepo(url))
  /\ requests' = Append(requests, TreeUrl(UrlOwner(url), StripGit(UrlRepo(url)), "main"))
  /\ pc' = "awaitMain"
  /\ UNCHANGED <<inputVars, status, error, sortedFiles, cursor, scanVars>>

\* A fetch() that rejects is not caught: fetchGitHubRepo rejects with it.
ListingRejects(at, st) ==
  /\ pc = at
  /\ st = 0
  /\ error' = "Failed to fetch"
  /\ pc' = "rejected"
  /\ UNCHANGED <<inputVars, owner, repoName, status, requests, sortedFiles, cursor, scanVars>>

\* processGitHubTree, lines 292-296: blobs, not ignored, the first MAX_FILES.
KeptEntry(item) ==
  /\ item.type = "blob"
  /\ ~RemoteIgnoredDir(item.path)
  /\ ~IgnoredFile(item.path)

\* Array.prototype.slice(0, n)
Slice(seq, n) == SubSeq(seq, 1, IF Len(seq) < n THEN Len(seq) ELSE n)

\* The listing cut to MAX_FILES entries before it is filtered.
TreeFilesCutFirst(tree) == SelectSeq(Slice(tree, MAX_FILES), KeptEntry)

TreeFiles(tree) == Slice(SelectSeq(tree, KeptEntry), MAX_FILES)

\* Lines 271 and 274: the listing is handed to processGitHubTree.
ListingOk(at, st) ==
  /\ pc = at
  /\ Ok(st)
  /\ sortedFiles' = TreeFiles(world.tree)
  /\ pc' = "treeLoop"

MainRejects == ListingRejects("awaitMain", world.main)
MasterRejects == ListingRejects("awaitMaster", world.master)

\* Line 256 false, line 274.
MainOk ==
  /\ ListingOk("awaitMain", world.main)
  /\ status' = world.main
  /\ UNCHANGED <<inputVars, owner, repoName, requests, error, cursor, scanVars>>

\* Lines 256-265: the listing of main did not succeed; master is requested.
MainNotOk ==
  /\ pc = "awaitMain"
  /\ world.main # 0
  /\ ~Ok(world.main)
  /\ status' = world.main
  /\ requests' = Append(requests, TreeUrl(owner, repoName, "master"))
  /\ pc' = "awaitMaster"
  /\ UNCHANGED <<inputVars, owner, repoName, error, sortedFiles, cursor, scanVars>>

\* Line 271.
MasterOk ==
  /\ ListingOk("awaitMaster", world.master)
  /\ UNCHANGED <<inputVars, fetchVars, cursor, scanVars>>

\* The message built from the status of the retry.
RepositoryErrorOfRetry(first, second) == "Failed to fetch repository: " \o ToString(second)

\* Line 268: `Failed to fetch repository: ${response.status}`, response being
\* the answer to the first request.
RepositoryError(first, second) == "Failed to fetch repository: " \o ToString(first)

\* Lines 267-269: both listings failed.
MasterNotOk ==
  /\ pc = "awaitMaster"
  /\ world.master # 0
  /\ ~Ok(world.master)
  /\ error' = RepositoryError(status, world.master)
  /\ pc' = "rejected"
  /\ UNCHANGED <<inputVars, owner, repoName, status, requests, sortedFiles, cursor, scanVars>>

(***************************************************************************)
(* processGitHubTree.                                                      *)
(***************************************************************************)
importantFiles == {"package.json", "requirements.txt", "Cargo.toml", "go.mod", ".eslintrc",
                   "tsconfig.json"}

\* Lines 317-318.
IsImportantFile(path) ==
  \/ \E f \in importantFiles : EndsWith(path, f)
  \/ \E e \in {".ts", ".tsx", ".js", ".jsx", ".py", ".go", ".rs", ".java"} : EndsWith(path, e)

\* file.size || 0
SizeOrZero(file) == IF file.hasSize THEN file.size ELSE 0

\* The test of line 320 without its cap on the counter.
ShouldFetchUncapped(file, count) ==
  /\ IsImportantFile(file.path)
  /\ file.hasSize
  /\ file.size # 0
  /\ file.size < MAX_FILE_SIZE

\* Line 320: isImportantFile && file.size && file.size < MAX_FILE_SIZE && processedCount < 50
ShouldFetch(file, count) ==
  /\ IsImportantFile(file.path)
  /\ file.hasSize
  /\ file.size # 0
  /\ file.size < MAX_FILE_SIZE
  /\ count < CONTENT_FETCH_CAP

\* What raw.githubusercontent.com answers for an entry on branch main: 404
\* for every path when the repository has no branch main.
RawStatus(file) == IF world.main = 404 THEN 404 ELSE file.rawStatus

TreeCurrent == sortedFiles[cursor]
TreeInLoop == pc = "treeLoop" /\ cursor <= Len(sortedFiles)

\* Lines 299-305: the entry is listed.
TreeList ==
  /\ TreeInLoop
  /\ structure' = Append(structure, TreeCurrent.path)
  /\ totalSize' = totalSize + SizeOrZero(TreeCurrent)
  /\ languages' = AddLanguage(languages, ExtOf(TreeCurrent.path))

\* Line 320 false: the content is not fetched.
TreeSkip ==
  /\ TreeList
  /\ ~ShouldFetch(TreeCurrent, processedCount)
  /\ cursor' = cursor + 1
  /\ UNCHANGED <<inputVars, fetchVars, pc, sortedFiles, frameworks, processedFiles,
                 errors, warnings, processedCount>>

\* Lines 320-323: the raw content is requested and awaited.
TreeBeginFetch ==
  /\ TreeList
  /\ ShouldFetch(TreeCurrent, processedCount)
  /\ requests' = Append(requests, RawUrl(owner, repoName, TreeCurrent.path))
  /\ pc' = "fetching"
  /\ UNCHANGED <<inputVars, owner, repoName, status, error, sortedFiles, cursor,
                 frameworks, processedFiles, errors, warnings, processedCount>>

\* Lines 325-343: the response is ok.
TreeFetchOk ==
  /\ pc = "fetching"
  /\ Ok(RawStatus(TreeCurrent))
  /\ LET content == TreeCurrent.text
         path == TreeCurrent.path
     IN /\ frameworks' = AddFrameworks(frameworks, path, content)
        /\ errors' = errors \o detectErrors(path, content)
        /\ processedFiles' = Append(processedFiles,
                                    FileInfo(path, content, ExtOf(path), TreeCurrent.size))
  /\ processedCount' = processedCount + 1
  /\ cursor' = cursor + 1
  /\ pc' = "treeLoop"
  /\ UNCHANGED <<inputVars, fetchVars, sortedFiles, languages, structure, warnings, totalSize>>

\* Line 325 false: a response that is not ok is dropped without a word.
TreeFetchNotOk ==
  /\ pc = "fetching"
  /\ RawStatus(TreeCurrent) # 0
  /\ ~Ok(RawStatus(TreeCurrent))
  /\ cursor' = cursor + 1
  /\ pc' = "treeLoop"
  /\ UNCHANGED <<inputVars, fetchVars, sortedFiles, scanVars>>

\* Lines 344-346: fetch() rejected; the catch notes it.
TreeFetchRejects ==
  /\ pc = "fetching"
  /\ RawStatus(TreeCurrent) = 0
  /\ warnings' = Append(warnings, FetchFailWarning(TreeCurrent.path))
  /\ cursor' = cursor + 1
  /\ pc' = "treeLoop"
  /\ UNCHANGED <<inputVars, fetchVars, sortedFiles, languages, frameworks, structure,
                 processedFiles, errors, totalSize, processedCount>>

\* Lines 350-359.
TreeReturn ==
  /\ pc = "treeLoop"
  /\ cursor > Len(sortedFiles)
  /\ pc' = "returned"
  /\ UNCHANGED <<inputVars, fetchVars, sortedFiles, cursor, scanVars>>

Next ==
  \/ ScanFilesStart
  \/ LocalSkipIgnored
  \/ LocalFileLimit
  \/ LocalSkipLarge
  \/ LocalBeginRead
  \/ LocalReadOk
  \/ LocalReadFail
  \/ LocalReturn
  \/ FetchInvalidUrl
  \/ FetchRequestMain
  \/ MainRejects
  \/ MainOk
  \/ MainNotOk
  \/ MasterRejects
  \/ MasterOk
  \/ MasterNotOk
  \/ TreeSkip
  \/ TreeBeginFetch
  \/ TreeFetchOk
  \/ TreeFetchNotOk
  \/ TreeFetchRejects
  \/ TreeReturn

Spec == Init /\ [][Next]_vars

(***************************************************************************)
(* useAnalysis: runFullAnalysis and the functions it awaits.  The state    *)
(* updates made between two awaits are one step; React shows the last      *)
(* value set in it.                                                        *)
(***************************************************************************)
\* Array.prototype.join(', ')
RECURSIVE Join(_)
Join(seq) ==
  IF seq = <<>> THEN ""
  ELSE IF Len(seq) = 1 THEN seq[1] ELSE seq[1] \o ", " \o Join(Tail(seq))

\* a || b on strings
OrElse(a, b) == IF a # "" THEN a ELSE b

\* Summaries a scan can return.
SummaryFull ==
  [isNull |-> FALSE, fileCount |-> 2, languages |-> <<"TypeScript", "JSON">>,
   frameworks |-> <<"React">>, warnings |-> <<"Skipped large file: big.py (100.0KB)">>,
   errors |-> <<"a.ts: 'any' type usage detected">>]
SummaryEmpty ==
  [isNull |-> FALSE, fileCount |-> 0, languages |-> <<>>, frameworks |-> <<>>,
   warnings |-> <<>>, errors |-> <<>>]

\* What supabase.functions.invoke resolves to: { data, error }.
InvokeError ==
  [error |-> "Edge Function returned a non-2xx status code", hasData |-> FALSE,
   success |-> FALSE, message |-> "", result |-> Null]
NoData == [error |-> "", hasData |-> FALSE, success |-> FALSE, message |-> "", result |-> Null]
Failed(message) ==
  [error |-> "", hasData |-> TRUE, success |-> FALSE, message |-> message, result |-> Null]
Succeeded(result) ==
  [error |-> "", hasData |-> TRUE, success |-> TRUE, message |-> "", result |-> result]

AnalysisSample ==
  [isNull |-> FALSE, overallScore |-> 75, criticalErrors |-> 1, warnings |-> 2,
   securityIssues |-> 0]
PatchSample ==
  [isNull |-> FALSE, patches |-> 1, fixedCount |-> 1, skippedCount |-> 1,
   skippedReasons |-> <<"no test covers it">>]
DocsSample == [isNull |-> FALSE, readme |-> "# bar", summary |-> "A scanner."]
SampleResult(action) ==
  CASE action = "analyze" -> AnalysisSample
    [] action = "fix" -> PatchSample
    [] action = "generate-docs" -> DocsSample

Answers(action) ==
  {InvokeError, NoData, Failed("Rate limit exceeded. Please try again in a moment."),
   Failed(""), Succeeded(SampleResult(action))}

\* The runs: an upload or a URL, what the scan does, what each call answers.
Scans ==
  {[source |-> "files", count |-> 2, url |-> "", rejects |-> "", summary |-> SummaryFull],
   [source |-> "files", count |-> 0, url |-> "", rejects |-> "", summary |-> SummaryEmpty],
   [source |-> "url", count |-> 0, url |-> CanonicalUrl, rejects |-> "", summary |-> SummaryFull],
   [source |-> "url", count |-> 0, url |-> "foo/bar", rejects |-> "Invalid GitHub URL",
    summary |-> Null]}
Tasks ==
  {[source |-> sc.source, count |-> sc.count, url |-> sc.url, rejects |-> sc.rejects,
    summary |-> sc.summary, analyze |-> a1, fix |-> a2, docs |-> a3] :
     sc \in Scans, a1 \in Answers("analyze"), a2 \in Answers("fix"),
     a3 \in Answers("generate-docs")}

\* addLog(type, message): appended to logs.
Log(type, message) == [type |-> type, message |-> message]
AddLogs(h, entries) == [h EXCEPT !.logs = h.logs \o entries]

\* clearLogs()
ClearLogs(h) ==
  [h EXCEPT !.logs = <<>>, !.repoSummary = Null, !.analysisResult = Null,
            !.patchResult = Null, !.docsResult = Null, !.progress = 0]

scannerVars == <<mode, files, url, world, fetchVars, pc, sortedFiles, cursor, scanVars, invocations>>

InitPipeline ==
  /\ mode = "hook"
  /\ files = <<>>
  /\ url = ""
  /\ world = World(<<0, 0>>, <<>>)
  /\ pc = "idle"
  /\ Fresh
  /\ EdgeIdle
  /\ Alone
  /\ hook = HookInitial
  /\ task \in Tasks
  /\ step = "runFullAnalysis"
  /\ invoked = <<>>
  /\ showAnalysis = TRUE

\* processFiles / processGitHubUrl up to the await of the scan.
RunStart ==
  /\ step = "runFullAnalysis"
  /\ hook' = [AddLogs(ClearLogs(hook),
                      IF task.source = "files"
                      THEN <<Log("info", "Processing uploaded files..."),
                             Log("info", "Scanning " \o ToString(task.count) \o " files...")>>
                      ELSE <<Log("info", "Fetching repository from GitHub..."),
                             Log("info", task.url)>>)
               EXCEPT !.status = "scanning", !.progress = 15]
  /\ step' = "scan"
  /\ UNCHANGED <<scannerVars, edgeVars, task, invoked, showAnalysis>>

\* The logs of a summary (lines 139-149, 175-185).
SummaryLogs(source, summary) ==
  (IF source = "files"
   THEN <<Log("success", "Found " \o ToString(summary.fileCount) \o " processable files"),
          Log("info", "Languages detected: " \o OrElse(Join(summary.languages), "None")),
          Log("info", "Frameworks detected: " \o OrElse(Join(summary.frameworks), "None"))>>
   ELSE <<Log("success", "Fetched " \o ToString(summary.fileCount) \o " files from repository"),
          Log("info", "Languages: " \o OrElse(Join(summary.languages), "None detected")),
          Log("info", "Frameworks: " \o OrElse(Join(summary.frameworks), "None detected"))>>)
  \o [k \in 1..Len(summary.warnings) |-> Log("warning", summary.warnings[k])]
  \o (IF Len(summary.errors) > 0
      THEN <<Log("warning", "Found " \o ToString(Len(summary.errors))
                            \o (IF source = "files" THEN " potential issues in code"
                                ELSE " potential issues"))>>
      ELSE <<>>)

\* The start of analyzeCode, generateFixes, generateDocs: status, progress,
\* a log, and the call.
CallStatus(action) ==
  CASE action = "analyze" -> "analyzing"
    [] action = "fix" -> "fixing"
    [] action = "generate-docs" -> "generating-docs"
CallProgress(action) ==
  CASE action = "analyze" -> 40 [] action = "fix" -> 60 [] action = "generate-docs" -> 85
CallLog(action) ==
  CASE action = "analyze" -> "Sending code to AI for analysis..."
    [] action = "fix" -> "Generating code fixes..."
    [] action = "generate-docs" -> "Generating documentation..."
BeginCall(h, action) ==
  [AddLogs(h, <<Log("info", CallLog(action))>>)
     EXCEPT !.status = CallStatus(action), !.progress = CallProgress(action)]

\* The scan resolved: the rest of processFiles / processGitHubUrl, then
\* analyzeCode up to its await.
ScanResolves ==
  /\ step = "scan"
  /\ task.rejects = ""
  /\ hook' = BeginCall([AddLogs(hook, SummaryLogs(task.source, task.summary))
                          EXCEPT !.repoSummary = task.summary, !.progress = 30],
                       "analyze")
  /\ invoked' = Append(invoked, "analyze")
  /\ step' = "analyze"
  /\ UNCHANGED <<scannerVars, edgeVars, task, showAnalysis>>

\* The scan rejected: the catch of processFiles / processGitHubUrl, then the
\* catch of runFullAnalysis.
ScanRejects ==
  /\ step = "scan"
  /\ task.rejects # ""
  /\ hook' = [AddLogs(hook, <<Log("error", (IF task.source = "files"
                                            THEN "Failed to process files: "
                                            ELSE "Failed to fetch repository: ")
                                           \o task.rejects)>>)
               EXCEPT !.status = "error"]
  /\ step' = "done"
  /\ UNCHANGED <<scannerVars, edgeVars, task, invoked, showAnalysis>>

\* What a call throws inside its try, "" when it throws nothing:
\* if (error) throw error; if (!data?.success) throw new Error(data?.error || fallback)
Thrown(answer, fallback) ==
  IF answer.error # "" THEN answer.error
  ELSE IF ~answer.hasData \/ ~answer.success THEN OrElse(answer.message, fallback)
  ELSE ""

\* The catch of a call: a log, status 'error', and the error thrown again,
\* into the catch of runFullAnalysis.
CallFails(at, answer, fallback, label) ==
  /\ step = at
  /\ Thrown(answer, fallback) # ""
  /\ hook' = [AddLogs(hook, <<Log("error", label \o ": " \o Thrown(answer, fallback))>>)
               EXCEPT !.status = "error"]
  /\ step' = "done"
  /\ UNCHANGED <<scannerVars, edgeVars, task, invoked, showAnalysis>>

AnalysisLogs(result) ==
  <<Log("success", "Analysis complete. Score: " \o ToString(result.overallScore) \o "/100"),
    Log("info", "Found " \o ToString(result.criticalErrors) \o " critical errors"),
    Log("info", "Found " \o ToString(result.warnings) \o " warnings"),
    Log("info", "Found " \o ToString(result.securityIssues) \o " security issues")>>
PatchLogs(result) ==
  <<Log("success", "Generated " \o ToString(result.patches) \o " patches"),
    Log("info", "Fixed: " \o ToString(result.fixedCount) \o ", Skipped: "
                \o ToString(result.skippedCount))>>
  \o [k \in 1..Len(result.skippedReasons) |-> Log("warning", "Skipped: " \o result.skippedReasons[k])]
DocsLogs ==
  <<Log("success", "Documentation generated successfully"),
    Log("info", "Generated: README.md, repo-summary.md, problems-solved.md")>>

\* analyzeCode resolved (lines 210-219); generateFixes starts (229-236).
AnalyzeOk ==
  /\ step = "analyze"
  /\ Thrown(task.analyze, "Analysis failed") = ""
  /\ hook' = BeginCall([AddLogs(hook, AnalysisLogs(task.analyze.result))
                          EXCEPT !.analysisResult = task.analyze.result, !.progress = 50],
                       "fix")
  /\ invoked' = Append(invoked, "fix")
  /\ step' = "fix"
  /\ UNCHANGED <<scannerVars, edgeVars, task, showAnalysis>>

\* The catch of analyzeCode without its throw: runFullAnalysis goes on.
AnalyzeFailsSwallowed ==
  /\ step = "analyze"
  /\ Thrown(task.analyze, "Analysis failed") # ""
  /\ hook' = BeginCall([AddLogs(hook, <<Log("error", "Analysis failed: "
                                                     \o Thrown(task.analyze, "Analysis failed"))>>)
                          EXCEPT !.status = "error"],
                       "fix")
  /\ invoked' = Append(invoked, "fix")
  /\ step' = "fix"
  /\ UNCHANGED <<scannerVars, edgeVars, task, showAnalysis>>

\* Lines 220-225, then 306-309.
AnalyzeFails == CallFails("analyze", task.analyze, "Analysis failed", "Analysis failed")

\* generateFixes resolved (lines 241-252); generateDocs starts (262-269).
FixOk ==
  /\ step = "fix"
  /\ Thrown(task.fix, "Fix generation failed") = ""
  /\ hook' = BeginCall([AddLogs(hook, PatchLogs(task.fix.result))
                          EXCEPT !.patchResult = task.fix.result, !.progress = 75],
                       "generate-docs")
  /\ invoked' = Append(invoked, "generate-docs")
  /\ step' = "generate-docs"
  /\ UNCHANGED <<scannerVars, edgeVars, task, showAnalysis>>

\* Lines 253-258, then 306-309.
FixFails == CallFails("fix", task.fix, "Fix generation failed", "Fix generation failed")

\* generateDocs resolved (lines 274-282), then line 305.
DocsOk ==
  /\ step = "generate-docs"
  /\ Thrown(task.docs, "Documentation generation failed") = ""
  /\ hook' = [AddLogs(hook, DocsLogs
                            \o <<Log("success", "All operations completed successfully!")>>)
               EXCEPT !.docsResult = task.docs.result, !.progress = 100, !.status = "complete"]
  /\ step' = "done"
  /\ UNCHANGED <<scannerVars, edgeVars, task, invoked, showAnalysis>>

\* Lines 283-288, then 306-309.
DocsFails ==
  CallFails("generate-docs", task.docs, "Documentation generation failed",
            "Documentation generation failed")

NextPipeline ==
  \/ RunStart
  \/ ScanResolves
  \/ ScanRejects
  \/ AnalyzeOk
  \/ AnalyzeFails
  \/ FixOk
  \/ FixFails
  \/ DocsOk
  \/ DocsFails

SpecPipeline == InitPipeline /\ [][NextPipeline]_vars

\* Index.handleReset (lines 395-398): reset() sets status 'idle' and calls
\* clearLogs(); the landing view is shown.  The button is rendered, enabled,
\* whenever the analysis view is shown; a run in progress goes on.
HandleReset ==
  /\ showAnalysis
  /\ hook' = ClearLogs([hook EXCEPT !.status = "idle"])
  /\ showAnalysis' = FALSE
  /\ UNCHANGED <<scannerVars, edgeVars, task, step, invoked>>

NextReset == NextPipeline \/ HandleReset

\* One run of runFullAnalysis and the Start Over button.
SpecReset == InitPipeline /\ [][NextReset]_vars

(***************************************************************************)
(* analyze-code: the handler passed to serve().  A JSON value is modelled  *)
(* by what the handler reads of it: its kind, and which of its members are *)
(* arrays, numbers or strings.                                             *)
(***************************************************************************)
Actions == {"analyze", "fix", "generate-docs"}
SummaryArrays == {"languages", "frameworks", "files", "errors", "warnings", "structure"}

\* A parsed request body.  elements: whether the members of files are
\* objects (prepareFiles reads f.path and f.content of each).
Value(kind, hasSummary, arrays, elements, action) ==
  [parses |-> TRUE, kind |-> kind, hasSummary |-> hasSummary, arrays |-> arrays,
   elements |-> elements, action |-> action]
NotJson ==
  [parses |-> FALSE, kind |-> "none", hasSummary |-> FALSE, arrays |-> {},
   elements |-> TRUE, action |-> ""]
Bodies ==
  {NotJson,
   Value("null", FALSE, {}, TRUE, ""),
   Value("string", FALSE, {}, TRUE, ""),
   Value("object", FALSE, {}, TRUE, "analyze"),
   Value("object", TRUE, SummaryArrays \ {"structure"}, TRUE, "analyze"),
   Value("object", TRUE, SummaryArrays \ {"files"}, TRUE, "fix"),
   Value("object", TRUE, SummaryArrays, TRUE, "deploy"),
   Value("object", TRUE, SummaryArrays, TRUE, ""),
   Value("object", TRUE, SummaryArrays, FALSE, "analyze"),
   Value("object", TRUE, SummaryArrays, TRUE, "analyze"),
   Value("object", TRUE, SummaryArrays, TRUE, "fix"),
   Value("object", TRUE, SummaryArrays, TRUE, "generate-docs")}

\* validateRequest(req), lines 21-34.
validateRequest(req) ==
  /\ req.kind = "object"
  /\ req.hasSummary
  /\ SummaryArrays \subseteq req.arrays
  /\ req.action \in Actions

\* A document the LLM wrote: whether JSON.parse accepts it, and the value.
Doc(parses, kind, arrays, numbers, strings) ==
  [parses |-> parses, kind |-> kind, arrays |-> arrays, numbers |-> numbers,
   strings |-> strings]
Garbage == Doc(FALSE, "none", {}, {}, {})
AnalyzeDoc == Doc(TRUE, "object", {"criticalErrors", "warnings", "securityIssues"},
                  {"overallScore"}, {"summary"})
FixDoc == Doc(TRUE, "object", {"patches", "skippedReasons"}, {"fixedCount", "skippedCount"},
              {"summary"})
DocsDoc == Doc(TRUE, "object", {}, {}, {"readme", "summary", "problemsSolved"})

\* validateAnalysisResponse(result, action), lines 50-62.
validateAnalysisResponse(result, action) ==
  /\ result.kind = "object"
  /\ CASE action = "analyze" ->
            {"criticalErrors", "warnings"} \subseteq result.arrays
            /\ "overallScore" \in result.numbers
       [] action = "fix" ->
            "patches" \in result.arrays /\ {"fixedCount", "skippedCount"} \subseteq result.numbers
       [] action = "generate-docs" -> {"readme", "summary"} \subseteq result.strings
       [] OTHER -> FALSE

\* data.choices?.[0]?.message?.content: truthy or not, a string or not; when
\* it holds a ``` fence, the text inside the first one, and the whole text.
Content(truthy, text, fenced, inner, whole) ==
  [truthy |-> truthy, text |-> text, fenced |-> fenced, inner |-> inner, whole |-> whole]
NoContent == Content(FALSE, TRUE, FALSE, Garbage, Garbage)
Plain(doc) == Content(TRUE, TRUE, FALSE, Garbage, doc)
Fenced(doc) == Content(TRUE, TRUE, TRUE, doc, Garbage)

\* What the LLM endpoint does: fetch rejects (status 0), or a status, whether
\* the body is JSON, and the content in it.
Llm(code, readable, content) == [status |-> code, readable |-> readable, content |-> content]
LlmAnswers ==
  {Llm(0, FALSE, NoContent), Llm(429, TRUE, NoContent), Llm(413, TRUE, NoContent),
   Llm(500, TRUE, NoContent), Llm(200, FALSE, NoContent), Llm(200, TRUE, NoContent),
   Llm(200, TRUE, Plain(Garbage)),
   Llm(200, TRUE, Plain(Doc(TRUE, "null", {}, {}, {}))),
   Llm(200, TRUE, Plain(Doc(TRUE, "object", {"criticalErrors", "warnings"}, {}, {"overallScore"}))),
   Llm(200, TRUE, Plain(AnalyzeDoc)), Llm(200, TRUE, Fenced(AnalyzeDoc)),
   Llm(200, TRUE, Plain(FixDoc)), Llm(200, TRUE, Plain(DocsDoc)),
   Llm(200, TRUE, Fenced(Garbage)),
   Llm(200, TRUE, Content(TRUE, FALSE, FALSE, Garbage, Garbage))}

Calls ==
  {[method |-> m, key |-> key, body |-> b, llm |-> l] :
     m \in {"OPTIONS", "POST"}, key \in BOOLEAN, b \in Bodies, l \in LlmAnswers}

\* new Response(JSON.stringify({ success: false, error }), { status })
Failure(code, message) ==
  [status |-> code, hasBody |-> TRUE, success |-> FALSE, error |-> message,
   result |-> Garbage, action |-> ""]
\* new Response(JSON.stringify({ success: true, result, action }))
Success(result, action) ==
  [status |-> 200, hasBody |-> TRUE, success |-> TRUE, error |-> "", result |-> result,
   action |-> action]
\* The outer catch, lines 245-258.
InternalError == Failure(500, "An error occurred while processing your request. Please try again.")

pipelineVars == <<scannerVars, hookVars>>

InitEdge ==
  /\ mode = "edge"
  /\ files = <<>>
  /\ url = ""
  /\ world = World(<<0, 0>>, <<>>)
  /\ pc = "idle"
  /\ Fresh
  /\ HookIdle
  /\ Alone
  /\ call \in Calls
  /\ reply = NoReply
  /\ llmCalls = 0
  /\ edgePc = "serve"

Respond(at, response) ==
  /\ edgePc = at
  /\ reply' = response
  /\ edgePc' = "responded"
  /\ UNCHANGED <<pipelineVars, call, llmCalls>>

\* Lines 65-67.
EdgeOptions ==
  /\ call.method = "OPTIONS"
  /\ Respond("serve", [status |-> 200, hasBody |-> FALSE, success |-> FALSE, error |-> "",
                       result |-> Garbage, action |-> ""])

\* Lines 70-74: no key, thrown into the outer catch.
EdgeNoKey ==
  /\ call.method # "OPTIONS"
  /\ ~call.key
  /\ Respond("serve", InternalError)

Keyed == call.method # "OPTIONS" /\ call.key

\* Lines 76-88.
EdgeInvalidJson ==
  /\ Keyed
  /\ ~call.body.parses
  /\ Respond("serve", Failure(400, "Invalid request format"))

\* Lines 90-99.
EdgeInvalidStructure ==
  /\ Keyed
  /\ call.body.parses
  /\ ~validateRequest(call.body)
  /\ Respond("serve", Failure(400, "Invalid request structure"))

Accepted == Keyed /\ call.body.parses /\ validateRequest(call.body)

\* Lines 118, 141, 152: prepareFiles reads a member of a file that is not an
\* object; the TypeError reaches the outer catch.
EdgePromptThrows ==
  /\ Accepted
  /\ ~call.body.elements
  /\ Respond("serve", InternalError)

\* Lines 101-175: the prompts are built and the request is sent.
EdgeRequestLlm ==
  /\ edgePc = "serve"
  /\ Accepted
  /\ call.body.elements
  /\ llmCalls' = llmCalls + 1
  /\ edgePc' = "awaitLlm"
  /\ UNCHANGED <<pipelineVars, call, reply>>

Answer == call.llm
LlmResponseOk == Answer.status \in 200..299

\* fetch rejects: the outer catch.
LlmRejects ==
  /\ Answer.status = 0
  /\ Respond("awaitLlm", InternalError)

\* Lines 181-189.
LlmRateLimited ==
  /\ Answer.status = 429
  /\ Respond("awaitLlm", Failure(429, "Rate limit exceeded. Please try again in a moment."))

\* Lines 191-199.
LlmTooLarge ==
  /\ Answer.status = 413
  /\ Respond("awaitLlm", Failure(413, "Request too large. Please try with fewer files."))

\* Line 201.
LlmOtherError ==
  /\ Answer.status \notin {0, 429, 413}
  /\ ~LlmResponseOk
  /\ Respond("awaitLlm", InternalError)

\* Line 204: response.json() rejects.
LlmBodyUnreadable ==
  /\ LlmResponseOk
  /\ ~Answer.readable
  /\ Respond("awaitLlm", InternalError)

\* Lines 205-210.
LlmNoContent ==
  /\ LlmResponseOk
  /\ Answer.readable
  /\ ~Answer.content.truthy
  /\ Respond("awaitLlm", InternalError)

Usable == LlmResponseOk /\ Answer.readable /\ Answer.content.truthy

\* Lines 219, 230-232: content.match is not a function, and in the catch
\* content.substring is not one either; the outer catch answers.
LlmContentNotText ==
  /\ Usable
  /\ ~Answer.content.text
  /\ Respond("awaitLlm", InternalError)

\* Lines 219-220.
JsonStr == IF Answer.content.fenced THEN Answer.content.inner ELSE Answer.content.whole

\* The reply with the test of the structure left out.
LlmOkUnvalidated ==
  /\ Usable
  /\ Answer.content.text
  /\ JsonStr.parses
  /\ Respond("awaitLlm", Success(JsonStr, call.body.action))

\* Lines 216-239.
LlmUnusable ==
  /\ Usable
  /\ Answer.content.text
  /\ ~(JsonStr.parses /\ validateAnalysisResponse(JsonStr, call.body.action))
  /\ Respond("awaitLlm", Failure(502, "Failed to parse API response. Please try again."))

\* Lines 241-243.
LlmOk ==
  /\ Usable
  /\ Answer.content.text
  /\ JsonStr.parses
  /\ validateAnalysisResponse(JsonStr, call.body.action)
  /\ Respond("awaitLlm", Success(JsonStr, call.body.action))

NextEdge ==
  \/ EdgeOptions
  \/ EdgeNoKey
  \/ EdgeInvalidJson
  \/ EdgeInvalidStructure
  \/ EdgePromptThrows
  \/ EdgeRequestLlm
  \/ LlmRejects
  \/ LlmRateLimited
  \/ LlmTooLarge
  \/ LlmOtherError
  \/ LlmBodyUnreadable
  \/ LlmNoContent
  \/ LlmContentNotText
  \/ LlmUnusable
  \/ LlmOk

SpecEdge == InitEdge /\ [][NextEdge]_vars

(***************************************************************************)
(* Two scans in one JavaScript realm.  Each invocation is a frame: the     *)
(* locals of scanFiles or of processGitHubTree.  A step of an invocation   *)
(* runs from one await to the next.                                        *)
(***************************************************************************)
\* Lines 76-83 and 282-289: the accumulators, fresh in every invocation.
NewAccumulators ==
  [languages |-> <<>>, frameworks |-> <<>>, structure |-> <<>>, files |-> <<>>,
   errors |-> <<>>, warnings |-> <<>>, totalSize |-> 0, fileCount |-> 0]

Frame(kind, input) ==
  [kind |-> kind, input |-> input, sorted |-> <<>>, at |-> 1, pc |-> "called",
   acc |-> NewAccumulators]

\* Lines 110-117 and 299-305: the path is listed.
Listed(acc, path, size) ==
  [acc EXCEPT !.totalSize = @ + size,
              !.structure = Append(@, path),
              !.languages = AddLanguage(@, ExtOf(path))]

\* Lines 128-144 and 328-342: the content is processed.
Processed(acc, path, content, size) ==
  [acc EXCEPT !.frameworks = AddFrameworks(@, path, content),
              !.errors = @ \o detectErrors(path, content),
              !.files = Append(@, FileInfo(path, content, ExtOf(path), size)),
              !.fileCount = @ + 1]

Warned(acc, warning) == [acc EXCEPT !.warnings = Append(@, warning)]

\* scanFiles from one await to the next (lines 75-160).
LocalStep(f) ==
  LET file == f.sorted[f.at]
      path == PathOf(file)
      next == [f EXCEPT !.at = @ + 1]
  IN CASE f.pc = "called" -> [f EXCEPT !.sorted = SortByPath(f.input), !.pc = "loop"]
       [] f.pc = "loop" /\ f.at > Len(f.sorted) -> [f EXCEPT !.pc = "returned"]
       [] f.pc = "loop" /\ f.at <= Len(f.sorted) ->
            IF LocalIgnored(path) THEN next
            ELSE IF FileLimitReached(f.acc.fileCount)
            THEN [f EXCEPT !.acc = Warned(@, FileLimitWarning), !.pc = "returned"]
            ELSE IF TooLarge(file.size)
            THEN [next EXCEPT !.acc = Warned(Listed(@, path, file.size),
                                             LargeFileWarning(path, file.size))]
            ELSE [f EXCEPT !.acc = Listed(@, path, file.size), !.pc = "awaiting"]
       [] f.pc = "awaiting" ->
            IF file.readError = ""
            THEN [next EXCEPT !.acc = Processed(@, path, file.text, file.size), !.pc = "loop"]
            ELSE [next EXCEPT !.acc = Warned(@, ReadFailWarning(path, file.readError)),
                              !.pc = "loop"]

\* processGitHubTree from one await to the next (lines 277-360).
RemoteStep(f) ==
  LET file == f.sorted[f.at]
      next == [f EXCEPT !.at = @ + 1]
  IN CASE f.pc = "called" -> [f EXCEPT !.sorted = TreeFiles(f.input), !.pc = "loop"]
       [] f.pc = "loop" /\ f.at > Len(f.sorted) -> [f EXCEPT !.pc = "returned"]
       [] f.pc = "loop" /\ f.at <= Len(f.sorted) ->
            IF ShouldFetch(file, f.acc.fileCount)
            THEN [f EXCEPT !.acc = Listed(@, file.path, SizeOrZero(file)), !.pc = "awaiting"]
            ELSE [next EXCEPT !.acc = Listed(@, file.path, SizeOrZero(file))]
       [] f.pc = "awaiting" ->
            IF Ok(file.rawStatus)
            THEN [next EXCEPT !.acc = Processed(@, file.path, file.text, file.size),
                              !.pc = "loop"]
            ELSE IF file.rawStatus = 0
            THEN [next EXCEPT !.acc = Warned(@, FetchFailWarning(file.path)), !.pc = "loop"]
            ELSE [next EXCEPT !.pc = "loop"]

ScanStep(f) == IF f.kind = "local" THEN LocalStep(f) ELSE RemoteStep(f)

\* The accumulators as bindings of the module: every invocation writes to the
\* same ones.
StepShared(fs, i) ==
  LET stepped == ScanStep(fs[i])
  IN [j \in DOMAIN fs |-> IF j = i THEN stepped ELSE [fs[j] EXCEPT !.acc = stepped.acc]]

\* The accumulators are bindings of the invocation (lines 76-83, 282-289):
\* a step of invocation i writes to the frame of i only.
Step(fs, i) == [fs EXCEPT ![i] = ScanStep(fs[i])]

\* The inputs of the invocations that run side by side.
MaxSideBySide == 2
SideLocal == {Pick(LocalPool, idx, 1) : idx \in SubsetsUpTo(7, MaxSideBySide)}
SideRemote == {Pick(RemotePool, idx, 1) : idx \in {{}, {8}, {3, 9}, {8, 10}}}
SideFrames ==
  {Frame("local", input) : input \in SideLocal} \cup {Frame("remote", input) : input \in SideRemote}

InitSide ==
  /\ mode = "side"
  /\ files = <<>>
  /\ url = ""
  /\ world = World(<<0, 0>>, <<>>)
  /\ pc = "idle"
  /\ Fresh
  /\ HookIdle
  /\ EdgeIdle
  /\ invocations \in {<<a, b>> : a \in SideFrames, b \in SideFrames}

\* The event loop resumes one of the invocations.
Resume(i) ==
  /\ invocations[i].pc # "returned"
  /\ invocations' = Step(invocations, i)
  /\ UNCHANGED <<mode, files, url, world, fetchVars, pc, sortedFiles, cursor, scanVars,
                 hookVars, edgeVars>>

ResumeFirst == Resume(1)
ResumeSecond == Resume(2)

NextSide == ResumeFirst \/ ResumeSecond

SpecSide == InitSide /\ [][NextSide]_vars

(***************************************************************************)
(* Properties.                                                             *)
(***************************************************************************)
Range(seq) == {seq[k] : k \in 1..Len(seq)}
Count(seq, x) == Cardinality({k \in 1..Len(seq) : seq[k] = x})
FilePaths == {processedFiles[k].path : k \in 1..Len(processedFiles)}
Local == mode = "local"
Remote == mode = "remote"
Returned == pc = "returned"

\* The input files of a local scan that the ignore rules let through.
NonIgnoredInputs == {k \in 1..Len(files) : ~LocalIgnored(PathOf(files[k]))}

\* C1: the returned summary of either scanner has fileCount = files.length
\* and files.length <= MAX_FILES.
C1_FileCountAndCap ==
  Returned => /\ Summary.fileCount = Len(Summary.files)
              /\ Len(Summary.files) <= MAX_FILES

\* C1 witness: a local scan returned MAX_FILES files while more paths than
\* that were admitted, one of them oversized or unreadable.
C1_Witness ==
  /\ Returned /\ Local
  /\ Len(Summary.files) = MAX_FILES
  /\ Len(Summary.structure) > MAX_FILES

\* The segments of a path: the texts between its '/' characters.
SegmentBounds(path) ==
  LET cuts == {0} \cup Positions(path, "/") \cup {Len(path) + 1}
  IN {<<a, b>> \in cuts \X cuts : a < b /\ \A c \in cuts : ~(a < c /\ c < b)}
Segments(path) == {SubSeq(path, ab[1] + 1, ab[2] - 1) : ab \in SegmentBounds(path)}
DirSegments(path) ==
  {SubSeq(path, ab[1] + 1, ab[2] - 1) : ab \in {x \in SegmentBounds(path) : x[2] <= Len(path)}}
EndsWithIgnoredFile(path) == \E f \in IGNORED_FILES : EndsWith(path, f)

\* C2 as claimed: no path of structure has a segment, the last included,
\* equal to an ignored directory name, and none ends with an ignored filename.
C2_Original ==
  \A path \in Range(structure) :
    Segments(path) \cap IGNORED_DIRS = {} /\ ~EndsWithIgnoredFile(path)

\* C2 as amended: no path of structure (hence of files) has a segment other
\* than its last equal to an ignored directory name, and none ends with an
\* ignored filename.
C2_Amended ==
  \A path \in Range(structure) \cup FilePaths :
    DirSegments(path) \cap IGNORED_DIRS = {} /\ ~EndsWithIgnoredFile(path)

\* C2 witness: a scan returned having skipped an ignored path and admitted
\* a file whose own name is an ignored directory name.
C2_Witness ==
  /\ Returned
  /\ "app/build" \in Range(structure)
  /\ \/ Local /\ "app/dist/y.ts" \in {PathOf(f) : f \in Range(files)}
     \/ Remote /\ "app/.env" \in {e.path : e \in Range(world.tree)}

\* C3 as claimed: a local scan admits at most MAX_FILES files to structure,
\* whatever became of them.
C3_Original == Local => Len(structure) <= MAX_FILES

IsLimitWarning(w) == w = "Reached file limit (100). Some files were skipped."

\* C4 as claimed: a local scan returns exactly one file-limit warning when
\* the input holds more than MAX_FILES non-ignored files, and none otherwise.
C4_Original ==
  (Returned /\ Local) =>
    Cardinality({k \in 1..Len(warnings) : IsLimitWarning(warnings[k])})
      = IF Cardinality(NonIgnoredInputs) > MAX_FILES THEN 1 ELSE 0

\* The sum of the sizes of a finite set of local files, of remote entries.
RECURSIVE SumLocal(_)
SumLocal(set) ==
  IF set = {} THEN 0
  ELSE LET f == CHOOSE y \in set : TRUE IN f.size + SumLocal(set \ {f})
RECURSIVE SumRemote(_)
SumRemote(set) ==
  IF set = {} THEN 0
  ELSE LET e == CHOOSE y \in set : TRUE IN SizeOrZero(e) + SumRemote(set \ {e})

\* The admitted files of the input: those whose path reached structure.
AdmittedLocal == {f \in Range(files) : PathOf(f) \in Range(structure)}
AdmittedRemote == {e \in Range(world.tree) : e.type = "blob" /\ e.path \in Range(structure)}
Oversized(n) == n > MAX_FILE_SIZE
AdmittedSize ==
  IF Local THEN SumLocal(AdmittedLocal) ELSE SumRemote(AdmittedRemote)
NamedIn(path, seq) == \E k \in 1..Len(seq) : Includes(seq[k], path)

\* C5 as claimed: in both scanners an admitted file larger than MAX_FILE_SIZE
\* is in structure, counts in totalSize, is not in files, and is named by a
\* warning.
C5_Original ==
  Returned =>
    /\ totalSize = AdmittedSize
    /\ \A f \in AdmittedLocal : (Local /\ Oversized(f.size)) =>
         PathOf(f) \notin FilePaths /\ NamedIn(PathOf(f), warnings)
    /\ \A e \in AdmittedRemote : (Remote /\ Oversized(SizeOrZero(e))) =>
         e.path \notin FilePaths /\ NamedIn(e.path, warnings)

\* C6: the local size cap is strict: an admitted readable file of exactly
\* MAX_FILE_SIZE bytes is read and lands in files, without a warning; one of
\* MAX_FILE_SIZE + 1 bytes is never read, is not in files, and has exactly one
\* 'Skipped large file' warning.
C6_StrictCap ==
  Local =>
    /\ pc = "reading" => LocalCurrent.size <= MAX_FILE_SIZE
    /\ Returned => \A f \in AdmittedLocal :
         /\ (f.size = MAX_FILE_SIZE /\ f.readError = "") =>
              /\ \E k \in 1..Len(processedFiles) :
                   processedFiles[k].path = PathOf(f) /\ processedFiles[k].content = f.text
              /\ ~NamedIn(PathOf(f), warnings)
         /\ f.size = MAX_FILE_SIZE + 1 =>
              /\ PathOf(f) \notin FilePaths
              /\ Count(warnings, "Skipped large file: " \o PathOf(f) \o " (100.0KB)") = 1
              /\ Cardinality({k \in 1..Len(warnings) : Includes(warnings[k], PathOf(f))}) = 1

\* C6 witness: a local scan of a file of MAX_FILE_SIZE bytes and one of
\* MAX_FILE_SIZE + 1 bytes returned.
C6_Witness ==
  /\ Returned /\ Local
  /\ \E f \in AdmittedLocal : f.size = MAX_FILE_SIZE /\ PathOf(f) \in FilePaths
  /\ \E f \in AdmittedLocal : f.size = MAX_FILE_SIZE + 1

\* The admitted local files whose content the scan read.
ReadLocal == {f \in AdmittedLocal : f.size <= MAX_FILE_SIZE /\ f.readError = ""}
HasLimitWarning == \E k \in 1..Len(warnings) : IsLimitWarning(warnings[k])

\* C7: scanFiles never rejects; when the read of an admitted file fails, one
\* warning 'Failed to read <path>: <message>' is appended, the file is in
\* structure and not in files, the processed counter counts only the files
\* that were read, no detector message is about the file, and the files
\* after it in sorted order are still processed.
C7_ReadFailureIsAWarning ==
  Local =>
    /\ pc # "rejected"
    /\ Returned =>
         /\ processedCount = Cardinality(ReadLocal)
         /\ FilePaths = {PathOf(f) : f \in ReadLocal}
         /\ ~HasLimitWarning =>
              Range(structure) = {PathOf(files[k]) : k \in NonIgnoredInputs}
         /\ \A f \in AdmittedLocal : (f.size <= MAX_FILE_SIZE /\ f.readError # "") =>
              /\ Count(warnings, "Failed to read " \o PathOf(f) \o ": " \o f.readError) = 1
              /\ PathOf(f) \notin FilePaths
              /\ \A k \in 1..Len(errors) : ~StartsWith(errors[k], PathOf(f) \o ": ")

\* C7 witness: a local scan returned after a failed read, with the file that
\* sorts after the unreadable one read and in files.
C7_Witness ==
  /\ Returned /\ Local
  /\ "Failed to read bad.ts: The file could not be read" \in Range(warnings)
  /\ "zz/last.ts" \in FilePaths

\* A string of the shape the claim names: https://<host>/<owner>/<repo>,
\* three non-empty segments after the scheme and nothing else.
WellFormedUrl(u) ==
  /\ StartsWith(u, "https://")
  /\ LET rest == SubSeq(u, Len("https://") + 1, Len(u))
     IN /\ Cardinality(Positions(rest, "/")) = 2
        /\ "" \notin Segments(rest)
Started == pc # "fetchGitHubRepo"
RejectedUnrequested == pc = "rejected" /\ error = "Invalid GitHub URL" /\ requests = <<>>

HoldsCoordinates(u) ==
  \E a \in 1..Len(u), b \in 1..Len(u) :
    /\ a + Len("github.com/") <= b
    /\ b < Len(u)
    /\ SubSeq(u, a, a + Len("github.com/") - 1) = "github.com/"
    /\ SubSeq(u, b, b) = "/"
    /\ SubSeq(u, b + 1, b + 1) # "/"
    /\ \A c \in (a + Len("github.com/"))..(b - 1) : SubSeq(u, c, c) # "/"

IsListingRequest(r) == Includes(r, "/git/trees/")
IsRawRequest(r) == StartsWith(r, "https://raw.githubusercontent.com/")
MainListing == "https://api.github.com/repos/foo/bar/git/trees/main?recursive=1"
MasterListing == "https://api.github.com/repos/foo/bar/git/trees/master?recursive=1"
Answered(st) == st # 0

\* C9: the listing of master is requested only after the listing of main was
\* answered with a non-ok status; at most two listings are requested; when
\* both are answered non-ok the scan rejects with an error carrying the status
\* of main, and no raw content is requested.
C9_MasterOnlyAfterMain ==
  Remote =>
    /\ Cardinality({k \in 1..Len(requests) : IsListingRequest(requests[k])}) <= 2
    /\ \A k \in 1..Len(requests) : requests[k] = MasterListing =>
         /\ k = 2
         /\ requests[1] = MainListing
         /\ Answered(world.main) /\ ~Ok(world.main)
    /\ (Answered(world.main) /\ ~Ok(world.main) /\ Answered(world.master) /\ ~Ok(world.master)) =>
         /\ pc \notin {"treeLoop", "fetching", "returned"}
         /\ \A k \in 1..Len(requests) : ~IsRawRequest(requests[k])
         /\ (pc = "rejected" /\ requests # <<>>) =>
              /\ error = "Failed to fetch repository: " \o ToString(world.main)
              /\ requests = <<MainListing, MasterListing>>

\* C9 witness: both listings were answered non-ok, with different statuses,
\* and the scan rejected.
C9_Witness ==
  /\ Remote /\ pc = "rejected"
  /\ world.main = 404 /\ world.master = 403
  /\ requests = <<MainListing, MasterListing>>

\* The entries of the listing whose raw content was requested and answered
\* with a non-ok status, the scan having moved past them.
FetchedNotOk ==
  {k \in 1..Len(sortedFiles) :
     /\ k < cursor
     /\ RawUrl(owner, repoName, sortedFiles[k].path) \in Range(requests)
     /\ Answered(RawStatus(sortedFiles[k]))
     /\ ~Ok(RawStatus(sortedFiles[k]))}

\* C10 as claimed: in a remote scan a raw-content request answered non-ok
\* appends the warning 'Failed to fetch <path>', and the file is not added to
\* files.
C10_Original ==
  (Remote /\ pc \in {"treeLoop", "returned"}) =>
    \A k \in FetchedNotOk :
      /\ ("Failed to fetch " \o sortedFiles[k].path) \in Range(warnings)
      /\ sortedFiles[k].path \notin FilePaths

RawRequests == {k \in 1..Len(requests) : IsRawRequest(requests[k])}

\* C11 as claimed: a remote scan issues at most 50 raw-content requests,
\* whatever the answers to them.
C11_Original == Remote => Cardinality(RawRequests) <= CONTENT_FETCH_CAP

\* The type the claim gives a path: the lowercased text after its last '.',
\* and "unknown" when there is none.
ClaimedType(path) ==
  LET dots == Positions(path, ".")
      after == IF dots = {} THEN "" ELSE ToLowerCase(SubSeq(path, Max(dots) + 1, Len(path)))
  IN IF after = "" THEN "unknown" ELSE after

\* C12 as claimed: the type of every record of files is the lowercased
\* extension of its path without the dot, or "unknown".
C12_Original ==
  \A k \in 1..Len(processedFiles) :
    processedFiles[k].type = ClaimedType(processedFiles[k].path)

\* The records of files that are package.json files.
PackageRecords == {r \in Range(processedFiles) : EndsWith(r.path, "package.json")}

\* The frameworks the claim gives a package.json text: those with an
\* indicator among the keys of dependencies or devDependencies.
ClaimedFrameworks(text) ==
  LET pkg == JsonParse[text]
  IN {fw \in DOMAIN FRAMEWORK_INDICATORS :
        FRAMEWORK_INDICATORS[fw] \cap (DOMAIN pkg.dependencies \cup DOMAIN pkg.devDependencies) # {}}

\* C13 as claimed: a framework is detected exactly when one of its
\* indicators is a key of dependencies or devDependencies, whatever the value.
C13_Original ==
  Returned => Range(frameworks) = UNION {ClaimedFrameworks(r.content) : r \in PackageRecords}

\* A text that JSON.parse rejects, or parses to null.
Unparseable(text) == JsonParse[text].threw \/ JsonParse[text].kind = "null"
IsPackagePath(path) == EndsWith(path, "package.json")
MessagesAbout(path) == {e \in Range(errors) : StartsWith(e, path \o ": ")}

\* C14: a package.json whose content does not parse adds nothing to
\* frameworks, no warning and no error of its own, and does not end the scan:
\* the file is in files and the pattern detector's messages about it, and
\* only those, are in errors.
C14_MalformedPackageIsSilent ==
  Local =>
    /\ pc # "rejected"
    /\ Returned =>
         \A f \in ReadLocal : (IsPackagePath(PathOf(f)) /\ Unparseable(f.text)) =>
           /\ \E k \in 1..Len(processedFiles) :
                processedFiles[k].path = PathOf(f) /\ processedFiles[k].content = f.text
           /\ ~NamedIn(PathOf(f), warnings)
           /\ MessagesAbout(PathOf(f)) = Range(detectErrors(PathOf(f), f.text))
           /\ Range(frameworks) =
                UNION {detectFrameworks(g.text, {}) :
                         g \in {h \in ReadLocal \ {f} : IsPackagePath(PathOf(h))}}

\* C14 witness: a local scan returned with a malformed package.json in files,
\* the detector's message about it in errors, and the frameworks of the other
\* package.json alone.
C14_Witness ==
  /\ Local /\ Returned
  /\ "app/package.json" \in FilePaths
  /\ "app/package.json: TODO/FIXME comment found (1 occurrence)" \in Range(errors)
  /\ frameworks = <<"React">>
  /\ warnings = <<>>

\* C15: totalSize is the sum of the sizes of exactly the paths of structure,
\* an absent remote size counting as 0; no path is in structure twice.
C15_TotalSizeIsSumOfStructure ==
  /\ totalSize = AdmittedSize
  /\ Cardinality(Range(structure)) = Len(structure)

\* C15 witness: a local scan returned with an oversized file, a file that
\* was read, and their two sizes in totalSize.
C15_Witness ==
  /\ Local /\ Returned
  /\ structure = <<"big.py", "zz/last.ts">>
  /\ FilePaths = {"zz/last.ts"}
  /\ totalSize = MAX_FILE_SIZE + 1 + 20

LanguageLabels == {LANGUAGE_EXTENSIONS[e] : e \in DOMAIN LANGUAGE_EXTENSIONS}
FrameworkLabels == DOMAIN FRAMEWORK_INDICATORS

\* C16: every member of languages is a label of the extension table and
\* every member of frameworks is a key of the framework table.
C16_LabelsFromTables ==
  /\ Range(languages) \subseteq LanguageLabels
  /\ Range(frameworks) \subseteq FrameworkLabels

\* C16 witness: a scan returned with a language and a framework detected and
\* a path in structure whose extension the table does not hold.
C16_Witness ==
  /\ Returned
  /\ languages # <<>> /\ frameworks # <<>>
  /\ \E k \in 1..Len(structure) : ExtOf(structure[k]) \notin DOMAIN LANGUAGE_EXTENSIONS

\* The branch whose listing the scan got.
ListedBranch == IF Ok(world.main) THEN "main" ELSE "master"

\* C19 as claimed: every raw-content request names the branch whose listing
\* succeeded.
C19_Original ==
  Remote =>
    \A k \in RawRequests :
      StartsWith(requests[k], "https://raw.githubusercontent.com/foo/bar/" \o ListedBranch \o "/")

\* The paths the claim selects: a manifest filename at the end, or one of
\* the source extensions.
Selected(path) ==
  \/ \E f \in {"package.json", "requirements.txt", "Cargo.toml", "go.mod", ".eslintrc",
               "tsconfig.json"} : EndsWith(path, f)
  \/ \E x \in {".ts", ".tsx", ".js", ".jsx", ".py", ".go", ".rs", ".java"} : EndsWith(path, x)
Requested(e) == RawUrl(owner, repoName, e.path) \in Range(requests)
InTree == Remote /\ pc \in {"treeLoop", "fetching", "returned"}
LastListed == sortedFiles[cursor - 1]

\* C20 as claimed: the content of a kept entry is requested exactly when its
\* path is selected, its size (0 when absent) is below MAX_FILE_SIZE and the
\* counter is below 50.
C20_Original ==
  InTree =>
    /\ pc = "fetching" =>
         /\ Selected(TreeCurrent.path) /\ SizeOrZero(TreeCurrent) < MAX_FILE_SIZE
         /\ processedCount < CONTENT_FETCH_CAP
    /\ (pc # "fetching" /\ cursor > 1 /\ ~Requested(LastListed)) =>
         ~(/\ Selected(LastListed.path) /\ SizeOrZero(LastListed) < MAX_FILE_SIZE
           /\ processedCount < CONTENT_FETCH_CAP)

Pipeline == <<"analyze", "fix", "generate-docs">>
AnswerOf(action) ==
  CASE action = "analyze" -> task.analyze
    [] action = "fix" -> task.fix
    [] action = "generate-docs" -> task.docs
\* A call succeeded: invoke gave no error and data.success is true.
CallSucceeded(action) ==
  AnswerOf(action).error = "" /\ AnswerOf(action).hasData /\ AnswerOf(action).success
ScanSucceeded == task.rejects = ""
\* The calls of the pipeline that precede the k-th all succeeded.
AllBefore(k) == \A j \in 1..(k - 1) : CallSucceeded(Pipeline[j])

\* C17: runFullAnalysis issues analyze, fix, generate-docs in that order,
\* each only after the scan and the calls before it succeeded; after a failed
\* scan or call no further call is issued and status is 'error'; status is
\* 'complete' only after the three calls succeeded.
C17_PipelineInOrder ==
  /\ invoked = SubSeq(Pipeline, 1, Len(invoked))
  /\ \A k \in 1..Len(invoked) : step # "scan" /\ ScanSucceeded /\ AllBefore(k)
  /\ hook.status = "complete" =>
       /\ step = "done" /\ invoked = Pipeline
       /\ ScanSucceeded /\ AllBefore(Len(Pipeline) + 1)
  /\ step = "done" =>
       /\ hook.status \in {"complete", "error"}
       /\ hook.status = "error" <=> ~(ScanSucceeded /\ AllBefore(Len(Pipeline) + 1))
       /\ ~ScanSucceeded => invoked = <<>>
       /\ \A k \in 1..Len(Pipeline) :
            (ScanSucceeded /\ AllBefore(k) /\ ~CallSucceeded(Pipeline[k])) => Len(invoked) = k

\* C17 witness: the scan and analyze succeeded, fix failed: the run ended in
\* 'error' having issued analyze and fix only.
C17_Witness ==
  /\ step = "done"
  /\ hook.status = "error"
  /\ invoked = <<"analyze", "fix">>
  /\ ~hook.analysisResult.isNull /\ hook.patchResult.isNull

\* The handler has answered a request that is not OPTIONS.
EdgeAnswered == mode = "edge" /\ edgePc = "responded" /\ call.method # "OPTIONS"

\* The shape the client reads for each action (AnalysisResult, PatchResult,
\* DocsResult).
WellShaped(result, action) ==
  /\ result.parses
  /\ result.kind = "object"
  /\ \/ action = "analyze" /\ {"criticalErrors", "warnings"} \subseteq result.arrays
        /\ "overallScore" \in result.numbers
     \/ action = "fix" /\ "patches" \in result.arrays
        /\ {"fixedCount", "skippedCount"} \subseteq result.numbers
     \/ action = "generate-docs" /\ {"readme", "summary"} \subseteq result.strings

\* {success: true, result} with a result of the requested shape, or
\* {success: false, error: <string>}.
Discriminated ==
  /\ reply.hasBody
  /\ \/ reply.success /\ WellShaped(reply.result, call.body.action)
     \/ ~reply.success /\ reply.error # ""

\* The body is not JSON, or is not {repoSummary, action} with the six arrays
\* and one of the three actions.
BadBody ==
  \/ ~call.body.parses
  \/ call.body.kind # "object"
  \/ ~call.body.hasSummary
  \/ \E member \in {"languages", "frameworks", "files", "errors", "warnings", "structure"} :
       member \notin call.body.arrays
  \/ call.body.action \notin {"analyze", "fix", "generate-docs"}

\* C18 as stated: every response to a non-OPTIONS request is {success: true,
\* result} with a result of the requested shape or {success: false, error};
\* a body that is not JSON or fails validateRequest gives success: false with
\* status 400 and no call to the LLM endpoint.
C18_Original ==
  EdgeAnswered =>
    /\ Discriminated
    /\ BadBody => (~reply.success /\ reply.status = 400 /\ llmCalls = 0)

\* C18, amended: the response is discriminated as stated; a bad body gives
\* success: false and no call to the LLM endpoint, with status 400 when
\* GROQ_API_KEY is configured and status 500 when it is not.
C18_Amended ==
  EdgeAnswered =>
    /\ Discriminated
    /\ BadBody => /\ ~reply.success
                  /\ llmCalls = 0
                  /\ reply.status = IF call.key THEN 400 ELSE 500

\* A bad body was answered with 400 under a configured key, without a call.
C18_Witness ==
  /\ EdgeAnswered
  /\ BadBody
  /\ call.key
  /\ call.body.parses
  /\ reply.status = 400
  /\ llmCalls = 0

\* The positions of the returned tree that hold a file that is not ignored.
KeptPositions == {k \in 1..Len(world.tree) : KeptEntry(world.tree[k])}
\* How many kept entries the tree holds up to position k.
Rank(k) == Cardinality({j \in KeptPositions : j <= k})
RemoteReturned == Remote /\ Returned

\* C21 as claimed: every path of structure is a non-ignored file entry among
\* the first 100 entries of the returned tree.
C21_Original ==
  RemoteReturned =>
    \A i \in 1..Len(structure) :
      \E k \in KeptPositions : k <= MAX_FILES /\ world.tree[k].path = structure[i]

\* C21, amended: structure is, in tree order, the first 100 of the non-ignored
\* file entries of the whole tree: the cut comes after the filter.
C21_Amended ==
  RemoteReturned =>
    /\ Len(structure) = Min({Cardinality(KeptPositions), MAX_FILES})
    /\ \A k \in KeptPositions :
         Rank(k) <= MAX_FILES => structure[Rank(k)] = world.tree[k].path

\* A tree of more than 100 entries with a filtered entry among the first 100:
\* structure holds 100 paths, the last of them from beyond position 100.
C21_Witness ==
  /\ RemoteReturned
  /\ Len(world.tree) > MAX_FILES
  /\ \E k \in 1..MAX_FILES : k \notin KeptPositions
  /\ Len(structure) = MAX_FILES
  /\ \E k \in KeptPositions : k > MAX_FILES /\ world.tree[k].path = structure[MAX_FILES]

\* The labels the claim lets a scan add: those of the paths of structure that
\* hold a dot, by the lowercased text after their last dot.
DottedLabels ==
  {LANGUAGE_EXTENSIONS["." \o ClaimedType(structure[k])] :
     k \in {j \in 1..Len(structure) :
              /\ Positions(structure[j], ".") # {}
              /\ ("." \o ClaimedType(structure[j])) \in DOMAIN LANGUAGE_EXTENSIONS}}

\* C22 as claimed: in a local scan a path without a dot adds no label to
\* languages, so every label comes from a path that holds a dot.
C22_Original == Local => Range(languages) \subseteq DottedLabels

\* The characters of the alphabet in the order of their UTF-16 code units.
CodeUnits == " \"-./" \o Digits \o ":@" \o UpperLetters \o "^_" \o LowerLetters \o "{}"
CodeUnitWeight == Tabulated([c \in CharsOf(Alphabet) |-> IndexIn(CodeUnits, c)])
\* Case-sensitive lexicographic order.
Ascending(paths) ==
  \A i \in 1..(Len(paths) - 1) : CompareWeights(paths[i], paths[i + 1], 1, CodeUnitWeight) <= 0

\* C23 as claimed: structure and files of a local scan are in ascending
\* case-sensitive lexicographic order of the paths, upper case first.
C23_Original ==
  Local =>
    /\ Ascending(structure)
    /\ Ascending([k \in 1..Len(processedFiles) |-> processedFiles[k].path])

\* The checks of the two scanners on a path.
RejectedByLocal(path) == LocalIgnoredDir(path) \/ IgnoredFile(path)
RejectedByRemote(path) == RemoteIgnoredDir(path) \/ IgnoredFile(path)

\* C24 as claimed: the two scanners reject the same paths, so a path that
\* either of them admitted to structure is not rejected by the other.
C24_Original ==
  /\ Local => \A k \in 1..Len(structure) : ~RejectedByRemote(structure[k])
  /\ Remote => \A k \in 1..Len(structure) : ~RejectedByLocal(structure[k])

\* The reads a local scan started (an admitted file that is not large is
\* read) and those whose outcome it recorded (a record or a warning).
ReadsStarted ==
  Len(structure) - Cardinality({k \in 1..Len(warnings) : StartsWith(warnings[k], "Skipped large file: ")})
ReadsSettled ==
  Len(processedFiles)
    + Cardinality({k \in 1..Len(warnings) : StartsWith(warnings[k], "Failed to read ")})
\* The fetches a remote scan started, and those that were answered: a record,
\* a warning, or a response that was not ok.
FetchesStarted == Cardinality(RawRequests)
FetchesSettled ==
  Len(processedFiles)
    + Cardinality({k \in 1..Len(warnings) : StartsWith(warnings[k], "Failed to fetch ")})
    + Cardinality(FetchedNotOk)

\* C25: within one scan at most one read or fetch is outstanding, and one is
\* outstanding exactly while the scan awaits it; the next is started only
\* after the outcome of the previous one was recorded.
C25_OneOutstanding ==
  /\ Local => /\ ReadsStarted - ReadsSettled \in {0, 1}
              /\ (ReadsStarted - ReadsSettled = 1) <=> (pc = "reading")
  /\ Remote => /\ FetchesStarted - FetchesSettled \in {0, 1}
               /\ (FetchesStarted - FetchesSettled = 1) <=> (pc = "fetching")

\* A read is outstanding after two earlier ones were settled, one with a
\* record and one with a warning.
C25_Witness ==
  /\ Local
  /\ pc = "reading"
  /\ Len(processedFiles) >= 1
  /\ ReadsSettled >= 2
  /\ ReadsSettled > Len(processedFiles)

\* The frame an invocation ends in when it runs alone.
RECURSIVE RunAlone(_)
RunAlone(f) == IF f.pc = "returned" THEN f ELSE RunAlone(ScanStep(f))
Solo(f) == RunAlone(Frame(f.kind, f.input)).acc

ExpectedSpecific(r) ==
  LET m == RegexMatches[r.content]
      ext == ClaimedType(r.path)
      script == ext \in {"ts", "tsx", "js", "jsx"}
      python == ext = "py"
  IN {r.path \o ": 'any' type usage detected" : x \in {1} \cap {IF script /\ m.anyType > 0 THEN 1 ELSE 0}}
     \cup {r.path \o ": 'var' usage (consider let/const)" :
             x \in {1} \cap {IF script /\ m.varUse > 0 THEN 1 ELSE 0}}
     \cup {r.path \o ": Loose equality (==) used instead of strict (===)" :
             x \in {1} \cap {IF script /\ m.looseEq > 0 THEN 1 ELSE 0}}
     \cup {r.path \o ": Bare except clause (catches all exceptions)" :
             x \in {1} \cap {IF python /\ m.bareExcept > 0 THEN 1 ELSE 0}}
     \cup {r.path \o ": Wildcard import detected" :
             x \in {1} \cap {IF python /\ m.wildcard > 0 THEN 1 ELSE 0}}

\* C27 as claimed: the TypeScript/JavaScript and the Python checks are applied
\* to exactly the files whose lowercased extension is ts, tsx, js, jsx or py:
\* each expected message of a record is in errors, once.
C27_Original ==
  \A k \in 1..Len(processedFiles) :
    \A message \in ExpectedSpecific(processedFiles[k]) : Count(errors, message) = 1

\* C28 as claimed: whenever status is 'complete' the three stored results are
\* non-null (and of the one run that was started).
C28_Original ==
  (mode = "hook" /\ hook.status = "complete") =>
    /\ hook.analysisResult = task.analyze.result
    /\ hook.patchResult = task.fix.result
    /\ hook.docsResult = task.docs.result
    /\ Null \notin {hook.analysisResult, hook.patchResult, hook.docsResult}

\* The members of paths from i on occur, in their order, in into from j on.
RECURSIVE Embeds(_, _, _, _)
Embeds(paths, into, i, j) ==
  IF i > Len(paths) THEN TRUE
  ELSE IF j > Len(into) THEN FALSE
  ELSE IF paths[i] = into[j] THEN Embeds(paths, into, i + 1, j + 1)
  ELSE Embeds(paths, into, i, j + 1)
RecordPaths == [k \in 1..Len(processedFiles) |-> processedFiles[k].path]

\* C29: the path of the record added last to files is already in structure,
\* and in a returned summary the paths of files, in order, form a
\* subsequence of structure.
C29_FilesWithinStructure ==
  /\ processedFiles # <<>> =>
       \E k \in 1..Len(structure) : structure[k] = processedFiles[Len(processedFiles)].path
  /\ Returned => Embeds(RecordPaths, structure, 1, 1)

\* A summary returned with several records whose paths follow, in structure,
\* a path whose content was not read.
C29_Witness ==
  /\ Returned
  /\ Len(processedFiles) >= 2
  /\ structure[1] \notin FilePaths
  /\ structure[2] = processedFiles[1].path
  /\ structure[Len(structure)] = processedFiles[Len(processedFiles)].path

\* C30: a remote scan stores the content of at most 50 files, counts as many
\* as it stores, and every stored record has a size strictly between 0 and
\* 100 * 1024.
C30_RemoteContentCap ==
  Remote =>
    /\ Len(processedFiles) <= CONTENT_FETCH_CAP
    /\ processedCount = Len(processedFiles)
    /\ \A k \in 1..Len(processedFiles) :
         processedFiles[k].size > 0 /\ processedFiles[k].size < MAX_FILE_SIZE

\* A remote scan returned with 100 paths in structure, of which more than 50
\* were eligible for a content fetch, and 50 records.
C30_Witness ==
  /\ Remote /\ Returned
  /\ Len(structure) = MAX_FILES
  /\ Cardinality({k \in 1..Len(sortedFiles) : ShouldFetch(sortedFiles[k], 0)}) > CONTENT_FETCH_CAP
  /\ Len(processedFiles) = CONTENT_FETCH_CAP
  /\ processedCount = CONTENT_FETCH_CAP

====
